---- MODULE Spec2Model ----
(***************************************************************************)
(* Model of the batch job orchestration core of firefly-services-cli:      *)
(*   - utils/rate_limiter.py   RateLimiter.acquire                         *)
(*   - cli/commands.py         handle_image_command (CSV batch and         *)
(*                             variation matrix), process_tasks_parallel   *)
(*   - services/image.py       generate_image                              *)
(* Time is a discrete clock; time.sleep(d) returns at any instant that is  *)
(* at least d after the call.                                              *)
(***************************************************************************)
EXTENDS Integers, Sequences, FiniteSets, TLC

(***************************************************************************)
(* Bounds of the model.                                                    *)
(***************************************************************************)
NumWorkers == 2
MaxAcquires == 2
MaxTime == 4
MaxCallsBound == 2
MaxPeriod == 2
MaxMinDelay == 1
Epoch == 1
NumTasks == 2
MaxApiRetries == 1
MaxPolls == 1
MaxStatusRequests == 3
MaxSegments == 2
MaxCount == 5

NumSiblings == 2

Workers == 1..NumWorkers
Siblings == 1..NumSiblings
Tasks == 1..NumTasks

VARIABLES
    clock,           \* time.time()
    max_calls,       \* RateLimiter.max_calls
    period,          \* RateLimiter.period
    min_delay,       \* RateLimiter.min_delay
    calls,           \* RateLimiter.calls
    last_call_time,  \* RateLimiter.last_call_time
    lock,            \* RateLimiter.lock: 0 when free, else the holder
    pc,              \* position of each worker inside acquire()
    now,             \* the local variable now of each worker
    wake,            \* earliest instant at which a sleeping worker returns
    acquired,        \* number of acquire() calls each worker has completed
    admissions       \* history: every timestamp ever appended to calls

VARIABLES
    mode,            \* "csv": the CSV batch; "var": the variation matrix
    throttle_limit,  \* THROTTLE_LIMIT_FIREFLY
    api_max_retries, \* API_MAX_RETRIES
    hpc,             \* position of the handler (the submitting thread)
    hidx,            \* index of the handler's current loop
    ust,             \* position of each task's work unit
    attempt,         \* generate_image: the loop variable attempt
    polls,           \* check_job_status: polls that found the job running
    res,             \* result of each task's latest future
    failed_tasks,    \* handle_image_command: failed_tasks
    consumed,        \* futures already yielded by as_completed
    runs,            \* history: work-unit invocations of each task
    totalSubs,       \* history: submission calls issued so far
    subAdm,          \* history: admissions granted in front of a submission
    firstOutcome,    \* history: result of each task's first invocation
    rejected         \* history: HTTP status on which generate_image raised
                     \* in the last invocation while attempt < max_retries
                     \* (0: no such error)

VARIABLES
    ppc,             \* process_tasks_parallel: position of the caller
    pidx,            \* index of the submission loop
    fst,             \* state of each future of the list futures
    fout,            \* what each future holds: a result or an exception
    pconsumed,       \* futures already yielded by as_completed
    results,         \* the list results
    cur,             \* the future whose HTTP 429 is being handled
    rtask,           \* the task resubmitted as new_future
    rst,             \* state of new_future
    rout             \* what new_future holds

VARIABLES
    cjs_pc,          \* check_job_status: position of the caller
    job,             \* the remote job: its status and its error detail
    status_data,     \* the last status response read by the caller
    cjs_polls,       \* status requests made so far (counted up to a bound)
    waited,          \* time spent in the current time.sleep
    cjs_out          \* what check_job_status returned or raised

VARIABLES
    xcmd,            \* args.command
    xmodel,          \* args.model, a string (sequence of characters)
    xprompt,         \* args.prompt
    xsref,           \* args.style_reference (empty: not given)
    xcref,           \* args.composition_reference (empty: not given)
    xn,              \* the value given to -n / --numVariations
    xpc,             \* position of the command run
    xmodels,         \* resolved_model_versions / model_versions
    xtasks,          \* the work units handed to executor.submit, in order
    xremote,         \* remote calls made before the first submission
    \* output file naming (image_task with src/utils/filename.py)
    output,          \* args.output, the filename template
    ftask,           \* the task: args.prompt and the tokens of image_task
    overwrite,       \* args.overwrite
    wall,            \* datetime.now(UTC): [day, sec]
    files,           \* the paths for which os.path.exists is true
    fpc,             \* position of the naming thread in get_unique_filename
    base_filename,   \* the rendered path passed to get_unique_filename
    counter,         \* the suffix counter of get_unique_filename
    output_filename, \* the value get_unique_filename returned
    renders,         \* how many times the task has been rendered
    prior,           \* the first returned path existed when this render began
    rendered         \* the [base, path, prior] of every completed render

VARIABLES
    \* sibling tasks of one image batch (image_task, commands.py:610-713)
    sib_pc,          \* position of each sibling task
    sib_base,        \* base_filename of each sibling task
    sib_counter,     \* the counter of its get_unique_filename call
    sib_out,         \* output_filename of each sibling task
    sib_wrote,       \* the path each sibling's download_file wrote, if any
    sib_res          \* what each sibling's work unit returned

VARIABLES
    \* the poll loop of check_job_status with the caller's limiter
    tpc,             \* position in check_job_status
    limiter_passed,  \* the argument rate_limiter is not None
    throttle_env,    \* the value of THROTTLE_STATUS_REQUESTS
    treqs,           \* status requests made
    tacq             \* calls of rate_limiter.acquire() made by the loop

VARIABLES
    \* handle_video_command after the job has been submitted
    vpc,             \* position in handle_video_command
    vmax,            \* max_retries (API_MAX_RETRIES)
    vdelay,          \* retry_delay (API_RETRY_DELAY)
    vattempt,        \* attempt, the variable of the for loop
    vreqs,           \* status requests made
    vfailures,       \* status requests that raised RequestException
    vwaits           \* the arguments of time.sleep at commands.py:2582

VARIABLES
    entered          \* history: when each caller made its latest call of acquire()

VARIABLES
    \* the CSV batch with the lock of its limiter
    lholder,         \* the thread inside acquire(): 0 the submitting
                     \* thread, i the work unit of task i, -1 nobody
    lmain,           \* position of the submitting thread
    lidx,            \* index of its current loop
    lunit,           \* position of each task's work unit
    lres,            \* result of each task's last work unit
    lpolls,          \* status requests of the work unit answered "running"
    lfailed,         \* failed_tasks
    lruns,           \* work units started for each task
    lconsumed,       \* retry futures already yielded by as_completed
    lpool            \* max_workers of the pools (throttle_limit)

\* the limiter object and the clock
rlstate == <<clock, max_calls, period, min_delay, calls, last_call_time,
             admissions>>
\* the callers of SpecRL
rlproc == <<lock, pc, now, wake, acquired>>
rlvars == <<clock, max_calls, period, min_delay, calls, last_call_time, lock,
            pc, now, wake, acquired, admissions>>
bvars == <<mode, throttle_limit, api_max_retries, hpc, hidx, ust, attempt,
           polls, res, failed_tasks, consumed, runs, totalSubs, subAdm,
           firstOutcome, rejected>>
pvars == <<ppc, pidx, fst, fout, pconsumed, results, cur, rtask, rst, rout>>
cvars == <<cjs_pc, job, status_data, cjs_polls, waited, cjs_out>>
\* the state of the operations that are modelled on their own
evars == <<xcmd, xmodel, xprompt, xsref, xcref, xn, xpc, xmodels, xtasks,
           xremote>>
fvars == <<output, ftask, overwrite, wall, files, fpc, base_filename, counter,
           output_filename, renders, prior, rendered>>
svars == <<sib_pc, sib_base, sib_counter, sib_out, sib_wrote, sib_res>>
\* the state of the specifications added last
tvars == <<tpc, limiter_passed, throttle_env, treqs, tacq>>
vvars == <<vpc, vmax, vdelay, vattempt, vreqs, vfailures, vwaits>>
hvars == <<entered>>
lvars == <<lholder, lmain, lidx, lunit, lres, lpolls, lfailed, lruns,
           lconsumed, lpool>>
yvars == <<svars, tvars, vvars, hvars, lvars>>
xvars == <<cvars, evars, fvars, yvars>>
vars == <<rlvars, bvars, pvars, xvars>>

(***************************************************************************)
(* Pure parts of RateLimiter.acquire.                                      *)
(***************************************************************************)
\* rate_limiter.py:26 and :32 -- [t for t in self.calls if now - t < self.period]
PurgeCalls(cs, n, per) == SelectSeq(cs, LAMBDA t : n - t < per)

\* a variant that sleeps for the time already elapsed, not the time remaining
MinDelaySleepElapsed(n, last, md) ==
    IF md > 0 /\ last > 0 /\ n - last < md THEN n - last ELSE 0

\* rate_limiter.py:18-21 -- time to sleep for the minimum delay, 0 when none
MinDelaySleep(n, last, md) ==
    IF md > 0 /\ last > 0 /\ n - last < md THEN md - (n - last) ELSE 0

\* a variant with an off-by-one window test
WindowFullStrict(cs, mc) == Len(cs) > mc

\* rate_limiter.py:27 -- the window is full
WindowFull(cs, mc) == Len(cs) >= mc

\* a variant that sleeps for the whole period
WindowSleepWholePeriod(cs, n, per) == per

\* rate_limiter.py:28 -- self.period - (now - self.calls[0])
WindowSleep(cs, n, per) == per - (n - cs[1])

(***************************************************************************)
(* RateLimiter.__init__ and the callers' clock.                            *)
(***************************************************************************)
RLInit ==
    /\ clock = Epoch
    /\ max_calls \in 1..MaxCallsBound
    /\ period \in 1..MaxPeriod
    /\ min_delay \in 0..MaxMinDelay
    /\ calls = <<>>
    /\ last_call_time = 0
    /\ lock = 0
    /\ pc = [w \in Workers |-> "idle"]
    /\ now = [w \in Workers |-> 0]
    /\ wake = [w \in Workers |-> 0]
    /\ acquired = [w \in Workers |-> 0]
    /\ admissions = <<>>

\* the passage of time
Tick ==
    /\ clock < MaxTime
    /\ clock' = clock + 1
    /\ UNCHANGED <<max_calls, period, min_delay, calls, last_call_time, lock,
                   pc, now, wake, acquired, admissions>>
    /\ UNCHANGED <<bvars, pvars, xvars>>

\* rate_limiter.py:14 -- with self.lock
AcqLock(w) ==
    /\ pc[w] = "idle"
    /\ acquired[w] < MaxAcquires
    /\ lock = 0
    /\ lock' = w
    /\ pc' = [pc EXCEPT ![w] = "l15"]
    /\ UNCHANGED <<clock, max_calls, period, min_delay, calls, last_call_time,
                   now, wake, acquired, admissions>>
    /\ UNCHANGED <<bvars, pvars, xvars>>

\* rate_limiter.py:15-22 -- now = time.time(); the minimum-delay test and
\* the call of time.sleep
AcqReadNow(w) ==
    /\ pc[w] = "l15"
    /\ now' = [now EXCEPT ![w] = clock]
    /\ LET st == MinDelaySleep(clock, last_call_time, min_delay) IN
         IF st > 0
           THEN /\ pc' = [pc EXCEPT ![w] = "l22"]
                /\ wake' = [wake EXCEPT ![w] = clock + st]
           ELSE /\ pc' = [pc EXCEPT ![w] = "l26"]
                /\ UNCHANGED wake
    /\ UNCHANGED <<clock, max_calls, period, min_delay, calls, last_call_time,
                   lock, acquired, admissions>>
    /\ UNCHANGED <<bvars, pvars, xvars>>

\* rate_limiter.py:22-23 -- time.sleep returns; now = time.time()
AcqWakeMinDelay(w) ==
    /\ pc[w] = "l22"
    /\ clock >= wake[w]
    /\ now' = [now EXCEPT ![w] = clock]
    /\ pc' = [pc EXCEPT ![w] = "l26"]
    /\ UNCHANGED <<clock, max_calls, period, min_delay, calls, last_call_time,
                   lock, wake, acquired, admissions>>
    /\ UNCHANGED <<bvars, pvars, xvars>>

\* rate_limiter.py:26-30 -- purge, the window test and the call of time.sleep
AcqCheckWindow(w) ==
    /\ pc[w] = "l26"
    /\ LET cs == PurgeCalls(calls, now[w], period) IN
         /\ calls' = cs
         /\ IF WindowFull(cs, max_calls)
              THEN LET st == WindowSleep(cs, now[w], period) IN
                     IF st > 0
                       THEN /\ pc' = [pc EXCEPT ![w] = "l30"]
                            /\ wake' = [wake EXCEPT ![w] = clock + st]
                       ELSE /\ pc' = [pc EXCEPT ![w] = "l31"]
                            /\ UNCHANGED wake
              ELSE /\ pc' = [pc EXCEPT ![w] = "l34"]
                   /\ UNCHANGED wake
    /\ UNCHANGED <<clock, max_calls, period, min_delay, last_call_time, lock,
                   now, acquired, admissions>>
    /\ UNCHANGED <<bvars, pvars, xvars>>

\* rate_limiter.py:30-32 -- time.sleep returns (or was skipped);
\* now = time.time(); second purge
AcqWakeWindow(w) ==
    /\ \/ pc[w] = "l30" /\ clock >= wake[w]
       \/ pc[w] = "l31"
    /\ now' = [now EXCEPT ![w] = clock]
    /\ calls' = PurgeCalls(calls, clock, period)
    /\ pc' = [pc EXCEPT ![w] = "l34"]
    /\ UNCHANGED <<clock, max_calls, period, min_delay, last_call_time, lock,
                   wake, acquired, admissions>>
    /\ UNCHANGED <<bvars, pvars, xvars>>

\* a with block that keeps the lock when it ends
LockKept(w) == w

\* rate_limiter.py:14 -- the lock after the with block has ended: free
LockReleased(w) == 0

\* rate_limiter.py:34-35 -- record the admission; the with block ends
AcqRecord(w) ==
    /\ pc[w] = "l34"
    /\ calls' = Append(calls, now[w])
    /\ last_call_time' = now[w]
    /\ admissions' = Append(admissions, now[w])
    /\ lock' = LockReleased(w)
    /\ pc' = [pc EXCEPT ![w] = "idle"]
    /\ acquired' = [acquired EXCEPT ![w] = @ + 1]
    /\ UNCHANGED <<clock, max_calls, period, min_delay, now, wake>>
    /\ UNCHANGED <<bvars, pvars, xvars>>

RLNext ==
    \/ Tick
    \/ \E w \in Workers : AcqLock(w)
    \/ \E w \in Workers : AcqReadNow(w)
    \/ \E w \in Workers : AcqWakeMinDelay(w)
    \/ \E w \in Workers : AcqCheckWindow(w)
    \/ \E w \in Workers : AcqWakeWindow(w)
    \/ \E w \in Workers : AcqRecord(w)

\* the state of a handler that has not been called
BIdleState ==
    /\ mode = "none"
    /\ api_max_retries = 0
    /\ hpc = "idle"
    /\ hidx = 1
    /\ ust = [i \in Tasks |-> "none"]
    /\ attempt = [i \in Tasks |-> 0]
    /\ polls = [i \in Tasks |-> 0]
    /\ res = [i \in Tasks |-> "none"]
    /\ failed_tasks = <<>>
    /\ consumed = {}
    /\ runs = [i \in Tasks |-> 0]
    /\ totalSubs = 0
    /\ subAdm = 0
    /\ firstOutcome = [i \in Tasks |-> "none"]
    /\ rejected = [i \in Tasks |-> 0]

BIdle == BIdleState /\ throttle_limit = 1

\* process_tasks_parallel has not been called
PIdle ==
    /\ ppc = "idle"
    /\ pidx = 1
    /\ fst = [i \in Tasks |-> "none"]
    /\ fout = [i \in Tasks |-> "none"]
    /\ pconsumed = {}
    /\ results = <<>>
    /\ cur = 0
    /\ rtask = 0
    /\ rst = "none"
    /\ rout = "none"

\* check_job_status has not been called
CIdle ==
    /\ cjs_pc = "idle"
    /\ job = [status |-> "pending", error |-> "absent"]
    /\ status_data = [status |-> "none", error |-> "absent"]
    /\ cjs_polls = 0
    /\ waited = 0
    /\ cjs_out = [kind |-> "none"]

\* no command with variations has been run
EIdle ==
    /\ xcmd = "none"
    /\ xmodel = <<>>
    /\ xprompt = <<>>
    /\ xsref = <<>>
    /\ xcref = <<>>
    /\ xn = 1
    /\ xpc = "idle"
    /\ xmodels = <<>>
    /\ xtasks = <<>>
    /\ xremote = 0

\* no output file has been named
FIdle ==
    /\ output = <<>>
    /\ ftask = [original_prompt |-> <<>>, prompt |-> <<>>, model |-> <<>>,
                iteration |-> 1]
    /\ overwrite = FALSE
    /\ wall = [day |-> 0, sec |-> 0]
    /\ files = {}
    /\ fpc = "idle"
    /\ base_filename = <<>>
    /\ counter = 1
    /\ output_filename = <<>>
    /\ renders = 0
    /\ prior = FALSE
    /\ rendered = <<>>

\* no sibling task has started
SIdle ==
    /\ sib_pc = [i \in Siblings |-> "idle"]
    /\ sib_base = [i \in Siblings |-> <<>>]
    /\ sib_counter = [i \in Siblings |-> 1]
    /\ sib_out = [i \in Siblings |-> <<>>]
    /\ sib_wrote = [i \in Siblings |-> <<>>]
    /\ sib_res = [i \in Siblings |-> "none"]

\* check_job_status has not been called with a limiter
TIdle ==
    /\ tpc = "idle"
    /\ limiter_passed = FALSE
    /\ throttle_env = "unset"
    /\ treqs = 0
    /\ tacq = 0

\* handle_video_command has not been called
VIdle ==
    /\ vpc = "idle"
    /\ vmax = 0
    /\ vdelay = 1
    /\ vattempt = 0
    /\ vreqs = 0
    /\ vfailures = 0
    /\ vwaits = <<>>

HIdle == entered = [w \in Workers |-> [at |-> 0, n |-> 0]]

LIdle ==
    /\ lholder = -1
    /\ lmain = "idle"
    /\ lidx = 1
    /\ lunit = [i \in Tasks |-> "none"]
    /\ lres = [i \in Tasks |-> "none"]
    /\ lpolls = [i \in Tasks |-> 0]
    /\ lfailed = <<>>
    /\ lruns = [i \in Tasks |-> 0]
    /\ lconsumed = {}
    /\ lpool = 1

YIdle == SIdle /\ TIdle /\ VIdle /\ HIdle /\ LIdle

XIdle == CIdle /\ EIdle /\ FIdle /\ YIdle

InitRL == RLInit /\ BIdle /\ PIdle /\ XIdle

SpecRL == InitRL /\ [][RLNext]_vars

\* time does not stop while a caller is inside time.sleep
TickSleeper ==
    /\ clock >= MaxTime
    /\ \E w \in Workers : pc[w] \in {"l22", "l30"} /\ wake[w] > clock
    /\ clock' = clock + 1
    /\ UNCHANGED <<max_calls, period, min_delay, calls, last_call_time, lock,
                   pc, now, wake, acquired, admissions>>
    /\ UNCHANGED <<bvars, pvars, xvars>>

\* rate_limiter.py:14 -- a call of acquire() that begins before MaxTime
AcqLockInTime(w) == clock < MaxTime /\ AcqLock(w)

RLNextFair ==
    \/ Tick
    \/ TickSleeper
    \/ \E w \in Workers : AcqLockInTime(w)
    \/ \E w \in Workers : AcqReadNow(w)
    \/ \E w \in Workers : AcqWakeMinDelay(w)
    \/ \E w \in Workers : AcqCheckWindow(w)
    \/ \E w \in Workers : AcqWakeWindow(w)
    \/ \E w \in Workers : AcqRecord(w)

\* time passes, every thread inside acquire() keeps running, and a caller
\* that waits for the lock gets it when it is free again and again
RLFairness ==
    /\ WF_vars(Tick \/ TickSleeper)
    /\ \A w \in Workers :
         /\ SF_vars(AcqLockInTime(w))
         /\ WF_vars(AcqReadNow(w) \/ AcqWakeMinDelay(w) \/ AcqCheckWindow(w)
                      \/ AcqWakeWindow(w) \/ AcqRecord(w))

SpecRLFair == InitRL /\ [][RLNextFair]_vars /\ RLFairness

(***************************************************************************)
(* acquire() as one step.  The whole body of acquire() runs under          *)
(* self.lock, so between its entry and its return no other caller changes  *)
(* the limiter; the callers below use it in this form.                     *)
(***************************************************************************)
\* rate_limiter.py:13-35 -- a call entered at instant n whose sleeps return
\* on time: the admission time and the new list of calls
AcquireAt(n) ==
    LET n1 == n + MinDelaySleep(n, last_call_time, min_delay)
        cs1 == PurgeCalls(calls, n1, period)
        full == WindowFull(cs1, max_calls)
        st == IF full THEN WindowSleep(cs1, n1, period) ELSE 0
        n2 == IF full /\ st > 0 THEN n1 + st ELSE n1
        cs2 == IF full THEN PurgeCalls(cs1, n2, period) ELSE cs1
    IN  [t |-> n2, calls |-> Append(cs2, n2)]

\* rate_limiter.py:13-35 -- rate_limiter.acquire() entered at instant n
AcquireFrom(n) ==
    LET r == AcquireAt(n) IN
        /\ clock' = r.t
        /\ calls' = r.calls
        /\ last_call_time' = r.t
        /\ UNCHANGED <<max_calls, period, min_delay, admissions>>

\* rate_limiter.py:13-35 -- rate_limiter.acquire()
Acquire == AcquireFrom(clock)

(***************************************************************************)
(* handle_image_command: the CSV batch (commands.py:416-521, work unit     *)
(* run_image_job) and the variation matrix (commands.py:610-736, work unit *)
(* image_task).                                                            *)
(*                                                                         *)
(* The handler and its work units read nothing of the limiter: a call of   *)
(* rate_limiter.acquire() returns after a bounded wait and changes only    *)
(* the limiter object (SpecRL).  Here the limiter is represented by the    *)
(* admissions it has granted in front of submissions (subAdm); the         *)
(* admissions that check_job_status asks for in front of a status request  *)
(* (commands.py:2153-2154) are not counted.                                *)
(***************************************************************************)
\* outcomes of _generate_image_internal: 0 is a requests.RequestException
\* without a response, the others are the HTTP status of the response
SubmitOutcomes == {0, 200, 400, 429, 503}

\* outcomes of one status request of check_job_status
PollOutcomes == {"succeeded", "failed", "running", "error"}

\* requests.Response.__bool__ is Response.ok: false for a status >= 400
ResponseTruthy(status) == status > 0 /\ status < 400

\* image.py:30 -- if e.response and 500 <= e.response.status_code < 600
ServerErrorSeen(status) ==
    ResponseTruthy(status) /\ 500 <= status /\ status < 600

\* a variant that retries once more than max_retries allows
CanRetryInclusive(att, maxr) == att <= maxr

\* image.py:31 and :44 -- if attempt < max_retries
CanRetry(att, maxr) == att < maxr

\* image.py:20-53 -- generate_image resubmits after this outcome
Resubmits(status, att, maxr) ==
    \/ status >= 400 /\ ServerErrorSeen(status) /\ CanRetry(att, maxr)
    \/ status = 0 /\ CanRetry(att, maxr)

\* work units that occupy a thread of the pool
Running ==
    {i \in Tasks : ust[i] \in {"acquire", "render", "submit", "poll",
                               "download"}}

BInit ==
    /\ mode \in {"csv", "var"}
    /\ throttle_limit \in 1..MaxCallsBound
    /\ api_max_retries \in 0..MaxApiRetries
    /\ hpc = "submit"
    /\ hidx = 1
    /\ ust = [i \in Tasks |-> "none"]
    /\ attempt = [i \in Tasks |-> 0]
    /\ polls = [i \in Tasks |-> 0]
    /\ res = [i \in Tasks |-> "none"]
    /\ failed_tasks = <<>>
    /\ consumed = {}
    /\ runs = [i \in Tasks |-> 0]
    /\ totalSubs = 0
    /\ subAdm = 0
    /\ firstOutcome = [i \in Tasks |-> "none"]
    /\ rejected = [i \in Tasks |-> 0]

\* commands.py:316-319 and :598-601 --
\* RateLimiter(throttle_limit, throttle_period, throttle_min_delay), with
\* THROTTLE_MIN_DELAY_SECONDS at its default
BLimiterInit ==
    /\ clock = Epoch
    /\ max_calls = throttle_limit
    /\ period = MaxPeriod
    /\ min_delay = 0
    /\ calls = <<>>
    /\ last_call_time = 0
    /\ admissions = <<>>

\* the callers of SpecRL do not exist in a batch run
RLProcIdle ==
    /\ lock = 0
    /\ pc = [w \in Workers |-> "idle"]
    /\ now = [w \in Workers |-> 0]
    /\ wake = [w \in Workers |-> 0]
    /\ acquired = [w \in Workers |-> 0]

\* commands.py:459-471 (CSV: rate_limiter.acquire(), executor.submit) and
\* commands.py:732 (variation matrix: executor.submit)
HSubmit ==
    /\ hpc = "submit"
    /\ subAdm' = IF mode = "csv" THEN subAdm + 1 ELSE subAdm
    /\ ust' = [ust EXCEPT ![hidx] = "queued"]
    /\ IF hidx = NumTasks
         THEN hpc' = "collect" /\ hidx' = 1
         ELSE hidx' = hidx + 1 /\ UNCHANGED hpc
    /\ UNCHANGED <<rlstate, mode, throttle_limit, api_max_retries, attempt,
                   polls, res, failed_tasks, consumed, runs, totalSubs,
                   firstOutcome, rejected>>
    /\ UNCHANGED <<rlproc, pvars, xvars>>

\* ThreadPoolExecutor(max_workers=throttle_limit), commands.py:420, :496
\* and :723: a free thread takes the oldest queued work item
UnitStart(i) ==
    /\ ust[i] = "queued"
    /\ \A j \in Tasks : ust[j] = "queued" => i <= j
    /\ Cardinality(Running) < throttle_limit
    /\ ust' = [ust EXCEPT ![i] = IF mode = "var" THEN "acquire" ELSE "render"]
    /\ runs' = [runs EXCEPT ![i] = @ + 1]
    /\ attempt' = [attempt EXCEPT ![i] = 0]
    /\ polls' = [polls EXCEPT ![i] = 0]
    /\ rejected' = [rejected EXCEPT ![i] = 0]
    /\ UNCHANGED <<rlstate, mode, throttle_limit, api_max_retries, hpc, hidx,
                   res, failed_tasks, consumed, totalSubs, subAdm,
                   firstOutcome>>
    /\ UNCHANGED <<rlproc, pvars, xvars>>

\* commands.py:612 -- image_task: rate_limiter.acquire()
UnitAcquire(i) ==
    /\ ust[i] = "acquire"
    /\ subAdm' = subAdm + 1
    /\ ust' = [ust EXCEPT ![i] = "render"]
    /\ UNCHANGED <<rlstate, mode, throttle_limit, api_max_retries, hpc, hidx,
                   attempt, polls, res, failed_tasks, consumed, runs,
                   totalSubs, firstOutcome, rejected>>
    /\ UNCHANGED <<rlproc, pvars, xvars>>

\* the work unit ends with result r; its local variables are gone
Finish(i, r) ==
    /\ ust' = [ust EXCEPT ![i] = "finished"]
    /\ res' = [res EXCEPT ![i] = r]
    /\ attempt' = [attempt EXCEPT ![i] = 0]
    /\ polls' = [polls EXCEPT ![i] = 0]
    /\ firstOutcome' = IF runs[i] = 1
                         THEN [firstOutcome EXCEPT ![i] = r]
                         ELSE firstOutcome

\* commands.py:192-193 and :622-623 -- get_variation_filename and
\* get_unique_filename, called before the try block: an error raised here
\* (filename.py:107-112 re-raises the error of os.makedirs) leaves the
\* work unit as the exception of its future
UnitRender(i) ==
    /\ ust[i] = "render"
    /\ \E ok \in BOOLEAN :
         IF ok
           THEN /\ ust' = [ust EXCEPT ![i] = "submit"]
                /\ UNCHANGED <<res, firstOutcome, attempt, polls>>
           ELSE Finish(i, "exc")
    /\ UNCHANGED <<rlstate, mode, throttle_limit, api_max_retries, hpc, hidx,
                   failed_tasks, consumed, runs, totalSubs, subAdm, rejected>>
    /\ UNCHANGED <<rlproc, pvars, xvars>>

\* image.py:20-53 -- one pass of the loop of generate_image: the call of
\* _generate_image_internal and the handling of its outcome; an error that
\* generate_image raises is caught at commands.py:276 / :707 (return False)
UnitSubmit(i) ==
    /\ ust[i] = "submit"
    /\ totalSubs' = totalSubs + 1
    /\ \E o \in SubmitOutcomes :
         IF o = 200
           THEN /\ ust' = [ust EXCEPT ![i] = "poll"]
                /\ attempt' = [attempt EXCEPT ![i] = 0]
                /\ UNCHANGED <<res, firstOutcome, polls, rejected>>
           ELSE IF Resubmits(o, attempt[i], api_max_retries)
             THEN /\ attempt' = [attempt EXCEPT ![i] = @ + 1]
                  /\ UNCHANGED <<ust, res, firstOutcome, polls, rejected>>
             ELSE /\ Finish(i, "false")
                  /\ rejected' = IF o >= 400 /\ attempt[i] < api_max_retries
                                   THEN [rejected EXCEPT ![i] = o]
                                   ELSE rejected
    /\ UNCHANGED <<rlstate, mode, throttle_limit, api_max_retries, hpc, hidx,
                   failed_tasks, consumed, runs, subAdm>>
    /\ UNCHANGED <<rlproc, pvars, xvars>>

\* commands.py:2151-2170 -- one pass of the loop of check_job_status: the
\* status request and the handling of the status
UnitPoll(i) ==
    /\ ust[i] = "poll"
    /\ \E s \in PollOutcomes :
         CASE s = "succeeded" ->
                /\ ust' = [ust EXCEPT ![i] = "download"]
                /\ polls' = [polls EXCEPT ![i] = 0]
                /\ UNCHANGED <<res, firstOutcome, attempt>>
           [] s = "running" ->
                /\ polls[i] < MaxPolls
                /\ polls' = [polls EXCEPT ![i] = @ + 1]
                /\ UNCHANGED <<ust, res, firstOutcome, attempt>>
           [] OTHER ->
                Finish(i, "false")
    /\ UNCHANGED <<rlstate, mode, throttle_limit, api_max_retries, hpc, hidx,
                   failed_tasks, consumed, runs, totalSubs, subAdm, rejected>>
    /\ UNCHANGED <<rlproc, pvars, xvars>>

\* commands.py:218-275 and :649-706 -- the outputs of the result: none
\* (return False), or download_file, whose return value is not used
\* (return True)
UnitDownload(i) ==
    /\ ust[i] = "download"
    /\ \E out \in {"none", "saved", "not_saved"} :
         Finish(i, IF out = "none" THEN "false" ELSE "true")
    /\ UNCHANGED <<rlstate, mode, throttle_limit, api_max_retries, hpc, hidx,
                   failed_tasks, consumed, runs, totalSubs, subAdm, rejected>>
    /\ UNCHANGED <<rlproc, pvars, xvars>>

\* a future.result() that does not wait for a work unit that has started
ResultReadyOnceStarted(st) == st \notin {"none", "queued"}

\* commands.py:480 -- future.result() returns or raises once the work unit
\* has finished
ResultReady(st) == st = "finished"

\* commands.py:478-493 -- CSV: future.result() of every task in submission
\* order; a false result or an exception puts the task in failed_tasks
HCollectCsv ==
    /\ hpc = "collect"
    /\ mode = "csv"
    /\ ResultReady(ust[hidx])
    /\ LET ft == IF res[hidx] # "true"
                   THEN Append(failed_tasks, hidx) ELSE failed_tasks
       IN  /\ failed_tasks' = ft
           /\ IF hidx = NumTasks
                THEN /\ hidx' = 1
                     /\ hpc' = IF ft # <<>> THEN "retry_submit" ELSE "done"
                ELSE /\ hidx' = hidx + 1
                     /\ UNCHANGED hpc
    /\ UNCHANGED <<rlstate, mode, throttle_limit, api_max_retries, ust,
                   attempt, polls, res, consumed, runs, totalSubs, subAdm,
                   firstOutcome, rejected>>
    /\ UNCHANGED <<rlproc, pvars, xvars>>

\* commands.py:497-510 -- CSV: executor.submit(run_image_job, ...) for the
\* next entry of failed_tasks
HRetrySubmit ==
    /\ hpc = "retry_submit"
    /\ ust' = [ust EXCEPT ![failed_tasks[hidx]] = "queued"]
    /\ res' = [res EXCEPT ![failed_tasks[hidx]] = "none"]
    /\ IF hidx = Len(failed_tasks)
         THEN hpc' = "retry_collect" /\ hidx' = 1
         ELSE hidx' = hidx + 1 /\ UNCHANGED hpc
    /\ UNCHANGED <<rlstate, mode, throttle_limit, api_max_retries, attempt,
                   polls, failed_tasks, consumed, runs, totalSubs, subAdm,
                   firstOutcome, rejected>>
    /\ UNCHANGED <<rlproc, pvars, xvars>>

\* commands.py:512-520 -- CSV: as_completed(retry_tasks) yields a finished
\* future; its result is only printed
HRetryCollect ==
    /\ hpc = "retry_collect"
    /\ \E k \in 1..Len(failed_tasks) :
         /\ failed_tasks[k] \notin consumed
         /\ ust[failed_tasks[k]] = "finished"
         /\ consumed' = consumed \cup {failed_tasks[k]}
         /\ hpc' = IF Cardinality(consumed') = Len(failed_tasks)
                     THEN "done" ELSE hpc
    /\ UNCHANGED <<rlstate, mode, throttle_limit, api_max_retries, hidx, ust,
                   attempt, polls, res, failed_tasks, runs, totalSubs, subAdm,
                   firstOutcome, rejected>>
    /\ UNCHANGED <<rlproc, pvars, xvars>>

\* commands.py:733-736 -- variation matrix: as_completed(tasks) yields a
\* finished future and future.result() returns or raises its exception
HCollectVar ==
    /\ hpc = "collect"
    /\ mode = "var"
    /\ \E i \in Tasks \ consumed :
         /\ ust[i] = "finished"
         /\ consumed' = consumed \cup {i}
         /\ hpc' = IF res[i] = "exc" THEN "unwinding"
                   ELSE IF consumed' = Tasks THEN "done" ELSE hpc
    /\ UNCHANGED <<rlstate, mode, throttle_limit, api_max_retries, hidx, ust,
                   attempt, polls, res, failed_tasks, runs, totalSubs, subAdm,
                   firstOutcome, rejected>>
    /\ UNCHANGED <<rlproc, pvars, xvars>>

\* commands.py:723 -- the exception leaves the with block: the executor
\* waits for its work items, then handle_image_command raises
HAbort ==
    /\ hpc = "unwinding"
    /\ \A i \in Tasks : ust[i] = "finished"
    /\ hpc' = "aborted"
    /\ UNCHANGED <<rlstate, mode, throttle_limit, api_max_retries, hidx, ust,
                   attempt, polls, res, failed_tasks, consumed, runs,
                   totalSubs, subAdm, firstOutcome, rejected>>
    /\ UNCHANGED <<rlproc, pvars, xvars>>

BNext ==
    \/ HSubmit
    \/ \E i \in Tasks : UnitStart(i)
    \/ \E i \in Tasks : UnitAcquire(i)
    \/ \E i \in Tasks : UnitRender(i)
    \/ \E i \in Tasks : UnitSubmit(i)
    \/ \E i \in Tasks : UnitPoll(i)
    \/ \E i \in Tasks : UnitDownload(i)
    \/ HCollectCsv
    \/ HRetrySubmit
    \/ HRetryCollect
    \/ HCollectVar
    \/ HAbort

InitBatch == BInit /\ BLimiterInit /\ RLProcIdle /\ PIdle /\ XIdle

SpecBatch == InitBatch /\ [][BNext]_vars

(***************************************************************************)
(* process_tasks_parallel (commands.py:2289-2336), called by               *)
(* handle_tts_command and handle_avatar_command.  A task function is a     *)
(* parameter of process_tasks_parallel: it is represented by what its      *)
(* future holds when it is done.                                           *)
(***************************************************************************)
\* commands.py:2301 -- ThreadPoolExecutor(max_workers=10)
PoolMaxWorkers == 10

\* commands.py:2316 -- time.sleep(70)
Cooldown429 == 70

\* what a future holds: a returned value, requests.exceptions.HTTPError
\* with status 429 or with another status, or another exception
TaskOutcomes == {"true", "false", "h429", "hother", "exc"}

\* work items that occupy a thread of the pool
PRunning ==
    {i \in Tasks : fst[i] = "running"} \cup
    (IF rst = "running" THEN {0} ELSE {})

\* a variant that forgets the entry of a task that raised
RecordFailureDropped(rs, f, t, h) == rs

\* commands.py:2328, :2331 and :2334 -- results.append(False)
RecordFailure(rs, f, t, h) ==
    Append(rs, [fut |-> f, task |-> t, val |-> FALSE, how |-> h])

\* commands.py:2312 and :2325 -- results.append(result)
RecordResult(rs, f, t, v, h) ==
    Append(rs, [fut |-> f, task |-> t, val |-> v, how |-> h])

\* commands.py:2318 -- tasks[len(results)], as a position of 1..len(tasks)
ResubmittedTask(rs) == Len(rs) + 1

\* commands.py:1129 and :1476 -- the callers' limiter (commands.py:882-885,
\* :1173-1176) and task list
PInit ==
    /\ BIdleState
    /\ throttle_limit \in 1..MaxCallsBound
    /\ ppc = "submit"
    /\ pidx = 1
    /\ fst = [i \in Tasks |-> "none"]
    /\ fout = [i \in Tasks |-> "none"]
    /\ pconsumed = {}
    /\ results = <<>>
    /\ cur = 0
    /\ rtask = 0
    /\ rst = "none"
    /\ rout = "none"

\* time passes while process_tasks_parallel runs
PTick ==
    /\ clock < MaxTime
    /\ clock' = clock + 1
    /\ UNCHANGED <<max_calls, period, min_delay, calls, last_call_time,
                   admissions>>
    /\ UNCHANGED <<bvars, rlproc, pvars, xvars>>

\* commands.py:2303-2307 -- rate_limiter.acquire(); executor.submit
PSubmit ==
    /\ ppc = "submit"
    /\ Acquire
    /\ fst' = [fst EXCEPT ![pidx] = "queued"]
    /\ IF pidx = NumTasks
         THEN ppc' = "collect" /\ pidx' = 1
         ELSE pidx' = pidx + 1 /\ UNCHANGED ppc
    /\ UNCHANGED <<fout, pconsumed, results, cur, rtask, rst, rout>>
    /\ UNCHANGED <<bvars, rlproc, xvars>>

\* commands.py:2301 -- a free thread of the pool takes the oldest work item
PStart(i) ==
    /\ fst[i] = "queued"
    /\ \A j \in Tasks : fst[j] = "queued" => i <= j
    /\ Cardinality(PRunning) < PoolMaxWorkers
    /\ fst' = [fst EXCEPT ![i] = "running"]
    /\ UNCHANGED <<ppc, pidx, fout, pconsumed, results, cur, rtask, rst, rout>>
    /\ UNCHANGED <<rlvars, bvars, xvars>>

\* commands.py:2307 -- task_func(*task_args) returns or raises
PRun(i) ==
    /\ fst[i] = "running"
    /\ \E o \in TaskOutcomes :
         /\ fst' = [fst EXCEPT ![i] = "done"]
         /\ fout' = [fout EXCEPT ![i] = o]
    /\ UNCHANGED <<ppc, pidx, pconsumed, results, cur, rtask, rst, rout>>
    /\ UNCHANGED <<rlvars, bvars, xvars>>

\* commands.py:2309-2316 and :2329-2334 -- as_completed yields a finished
\* future; future.result() returns (append) or raises: HTTP 429 starts the
\* cool-down, every other exception appends False
PCollect ==
    /\ ppc = "collect"
    /\ \E i \in Tasks \ pconsumed :
         /\ fst[i] = "done"
         /\ pconsumed' = pconsumed \cup {i}
         /\ CASE fout[i] \in {"true", "false"} ->
                   /\ results' = RecordResult(results, i, i, fout[i] = "true",
                                              "result")
                   /\ ppc' = IF pconsumed' = Tasks THEN "returned" ELSE ppc
                   /\ UNCHANGED cur
              [] fout[i] = "h429" ->
                   /\ ppc' = "cooldown"
                   /\ cur' = i
                   /\ UNCHANGED results
              [] OTHER ->
                   /\ results' = RecordFailure(results, i, i,
                                   IF fout[i] = "hother" THEN "http_error"
                                                         ELSE "error")
                   /\ ppc' = IF pconsumed' = Tasks THEN "returned" ELSE ppc
                   /\ UNCHANGED cur
    /\ UNCHANGED <<pidx, fst, fout, rtask, rst, rout>>
    /\ UNCHANGED <<rlvars, bvars, xvars>>

\* commands.py:2316-2322 -- time.sleep(70) returns; the task at position
\* len(results) is resubmitted after rate_limiter.acquire()
PResubmit ==
    /\ ppc = "cooldown"
    /\ AcquireFrom(clock + Cooldown429)
    /\ rtask' = ResubmittedTask(results)
    /\ rst' = "queued"
    /\ ppc' = "await"
    /\ UNCHANGED <<pidx, fst, fout, pconsumed, results, cur, rout>>
    /\ UNCHANGED <<bvars, rlproc, xvars>>

\* commands.py:2322 -- a free thread of the pool takes new_future
PRetryStart ==
    /\ rst = "queued"
    /\ \A j \in Tasks : fst[j] # "queued"
    /\ Cardinality(PRunning) < PoolMaxWorkers
    /\ rst' = "running"
    /\ UNCHANGED <<ppc, pidx, fst, fout, pconsumed, results, cur, rtask, rout>>
    /\ UNCHANGED <<rlvars, bvars, xvars>>

\* commands.py:2322 -- the resubmitted task returns or raises
PRetryRun ==
    /\ rst = "running"
    /\ \E o \in TaskOutcomes :
         /\ rst' = "done"
         /\ rout' = o
    /\ UNCHANGED <<ppc, pidx, fst, fout, pconsumed, results, cur, rtask>>
    /\ UNCHANGED <<rlvars, bvars, xvars>>

\* commands.py:2323-2328 -- new_future.result() returns (append) or raises
\* (append False); then the loop over as_completed goes on
PAwait ==
    /\ ppc = "await"
    /\ rst = "done"
    /\ results' = IF rout \in {"true", "false"}
                    THEN RecordResult(results, cur, rtask, rout = "true",
                                      "resubmitted")
                    ELSE RecordFailure(results, cur, rtask, "resubmit_failed")
    /\ ppc' = IF pconsumed = Tasks THEN "returned" ELSE "collect"
    /\ cur' = 0
    /\ rtask' = 0
    /\ rst' = "none"
    /\ rout' = "none"
    /\ UNCHANGED <<pidx, fst, fout, pconsumed>>
    /\ UNCHANGED <<rlvars, bvars, xvars>>

PNext ==
    \/ PTick
    \/ PSubmit
    \/ \E i \in Tasks : PStart(i)
    \/ \E i \in Tasks : PRun(i)
    \/ PCollect
    \/ PResubmit
    \/ PRetryStart
    \/ PRetryRun
    \/ PAwait

InitPTP == PInit /\ BLimiterInit /\ RLProcIdle /\ XIdle

SpecPTP == InitPTP /\ [][PNext]_vars

(***************************************************************************)
(* check_job_status (commands.py:2125-2170), called once on its own.       *)
(* The remote job changes its status by itself; a status request that is   *)
(* answered reads the status the job has at that moment.  time.sleep(2)    *)
(* returns when exactly its argument has passed.  The admission that the   *)
(* caller may ask of a limiter before a request (commands.py:2153-2154)    *)
(* changes only the limiter and is not part of this specification.         *)
(***************************************************************************)
\* commands.py:2170 -- time.sleep(2)
PollSleep == 2

\* values of the field 'status' of a status response
RemoteStatuses == {"pending", "running", "succeeded", "failed", "cancelled"}

\* statuses the remote job never leaves
RemoteFinal == {"succeeded", "failed", "cancelled"}

\* the statuses that end the poll loop
TerminalStatuses == {"succeeded", "failed"}

\* values of the field 'error' of a status response
ErrorDetails == {"absent", "quota_exceeded"}

\* answers to requests.get / raise_for_status, commands.py:2156-2157
RequestAnswers == {"ok", "http_error", "network_error"}

\* positions at which check_job_status is over
CJSDone == {"returned", "job_failed", "request_error", "loop_exit"}

\* commands.py:2163 -- status_data.get('status') == 'succeeded'
StatusSucceeded(sd) == sd.status = "succeeded"

\* a variant that takes every final remote status but success for a failure
StatusFailedOrFinal(sd) == sd.status \in RemoteFinal \ {"succeeded"}

\* commands.py:2165 -- status_data.get('status') == 'failed'
StatusFailed(sd) == sd.status = "failed"

\* commands.py:2166 -- status_data.get('error', 'Unknown error')
ErrorText(sd) == IF sd.error = "absent" THEN "Unknown error" ELSE sd.error

\* a variant that gives up after a maximal number of polls
PollAgainBounded(n) == n < MaxStatusRequests

\* commands.py:2151 -- while True
PollAgain(n) == TRUE

CJSInit ==
    /\ cjs_pc = "request"
    /\ job \in [status : RemoteStatuses \ RemoteFinal, error : {"absent"}]
    /\ status_data = [status |-> "none", error |-> "absent"]
    /\ cjs_polls = 0
    /\ waited = 0
    /\ cjs_out = [kind |-> "none", status |-> "none", error |-> "absent"]

\* the remote service moves the job to another status
JobStep ==
    /\ job.status \notin RemoteFinal
    /\ \E st \in RemoteStatuses \ {job.status}, e \in ErrorDetails :
         /\ st # "failed" => e = "absent"
         /\ job' = [status |-> st, error |-> e]
    /\ UNCHANGED <<cjs_pc, status_data, cjs_polls, waited, cjs_out>>
    /\ UNCHANGED <<rlvars, bvars, pvars, evars, fvars, yvars>>

\* commands.py:2156-2166 -- one status request and the handling of the
\* status it reads
CJSRequest ==
    /\ cjs_pc = "request"
    /\ cjs_polls' = IF cjs_polls < MaxStatusRequests
                      THEN cjs_polls + 1 ELSE cjs_polls
    /\ \E a \in RequestAnswers :
         IF a # "ok"
           THEN /\ cjs_pc' = "request_error"
                /\ cjs_out' = [kind |-> a, status |-> "none",
                               error |-> "absent"]
                /\ UNCHANGED <<status_data, waited>>
           ELSE /\ status_data' = job
                /\ IF StatusSucceeded(job)
                     THEN /\ cjs_pc' = "returned"
                          /\ cjs_out' = [kind |-> "payload",
                                         status |-> job.status,
                                         error |-> job.error]
                          /\ UNCHANGED waited
                     ELSE IF StatusFailed(job)
                       THEN /\ cjs_pc' = "job_failed"
                            /\ cjs_out' = [kind |-> "job_failed",
                                           status |-> job.status,
                                           error |-> ErrorText(job)]
                            /\ UNCHANGED waited
                       ELSE IF PollAgain(cjs_polls')
                         THEN /\ cjs_pc' = "sleep"
                              /\ waited' = 0
                              /\ UNCHANGED cjs_out
                         ELSE /\ cjs_pc' = "loop_exit"
                              /\ UNCHANGED <<cjs_out, waited>>
    /\ UNCHANGED job
    /\ UNCHANGED <<rlvars, bvars, pvars, evars, fvars, yvars>>

\* time passes during time.sleep(2), commands.py:2170
CJSTick ==
    /\ cjs_pc = "sleep"
    /\ waited < PollSleep
    /\ waited' = waited + 1
    /\ UNCHANGED <<cjs_pc, job, status_data, cjs_polls, cjs_out>>
    /\ UNCHANGED <<rlvars, bvars, pvars, evars, fvars, yvars>>

\* commands.py:2170 -- time.sleep(2) returns; back to the top of the loop
CJSWake ==
    /\ cjs_pc = "sleep"
    /\ waited = PollSleep
    /\ cjs_pc' = "request"
    /\ UNCHANGED <<job, status_data, cjs_polls, waited, cjs_out>>
    /\ UNCHANGED <<rlvars, bvars, pvars, evars, fvars, yvars>>

CJSNext ==
    \/ JobStep
    \/ CJSRequest
    \/ CJSTick
    \/ CJSWake

\* no limiter and no batch around the call
LimiterUnused ==
    /\ clock = Epoch
    /\ max_calls = 1
    /\ period = 1
    /\ min_delay = 0
    /\ calls = <<>>
    /\ last_call_time = 0
    /\ admissions = <<>>

InitCJS ==
    CJSInit /\ LimiterUnused /\ RLProcIdle /\ BIdle /\ PIdle /\ EIdle /\ FIdle
    /\ YIdle

SpecCJS == InitCJS /\ [][CJSNext]_vars

\* the thread that runs check_job_status keeps running, and time passes
CJSFairness ==
    /\ WF_vars(CJSRequest)
    /\ WF_vars(CJSTick)
    /\ WF_vars(CJSWake)

SpecCJSFair == SpecCJS /\ CJSFairness

(***************************************************************************)
(* Variation expansion: parse_prompt_variations (filename.py:128-158),     *)
(* parse_model_variations and parse_style_ref_variations                   *)
(* (image.py:172-215) and the loops that hand the tasks to the pool.       *)
(* A string is a sequence of characters; a word such as "cat" or "image3"  *)
(* stands for one character that is neither a bracket, a comma nor a       *)
(* space.                                                                  *)
(***************************************************************************)
\* str.find(c, i): the first position >= i of character c in s, 0 if none
RECURSIVE IndexFrom(_, _, _)
IndexFrom(s, c, i) ==
    IF i > Len(s) THEN 0
    ELSE IF s[i] = c THEN i ELSE IndexFrom(s, c, i + 1)

\* the first match of the pattern \[(.*?)\] at or after position i, as the
\* positions of its brackets; <<0, 0>> if there is none
BlockMatch(s, i) ==
    LET a == IndexFrom(s, "[", i)
        b == IF a = 0 THEN 0 ELSE IndexFrom(s, "]", a + 1)
    IN  IF b = 0 THEN <<0, 0>> ELSE <<a, b>>

RECURSIVE FindAllFrom(_, _)
FindAllFrom(s, i) ==
    LET m == BlockMatch(s, i)
    IN  IF m[1] = 0 THEN <<>>
        ELSE <<SubSeq(s, m[1] + 1, m[2] - 1)>> \o FindAllFrom(s, m[2] + 1)

\* filename.py:139 -- re.findall(r'\[(.*?)\]', prompt)
FindBlocks(s) == FindAllFrom(s, 1)

\* str.split(',')
RECURSIVE Split(_)
Split(s) ==
    LET c == IndexFrom(s, ",", 1)
    IN  IF c = 0 THEN <<s>>
        ELSE <<SubSeq(s, 1, c - 1)>> \o Split(SubSeq(s, c + 1, Len(s)))

RECURSIVE LStrip(_)
LStrip(s) ==
    IF s # <<>> /\ Head(s) = " " THEN LStrip(Tail(s)) ELSE s

RECURSIVE RStrip(_)
RStrip(s) ==
    IF s # <<>> /\ s[Len(s)] = " "
      THEN RStrip(SubSeq(s, 1, Len(s) - 1)) ELSE s

\* str.strip()
Strip(s) == RStrip(LStrip(s))

\* filename.py:155 -- re.sub(r'\[.*?\]', value, current_prompt, count=1)
SubFirst(s, v) ==
    LET m == BlockMatch(s, 1)
    IN  IF m[1] = 0 THEN s
        ELSE SubSeq(s, 1, m[1] - 1) \o v \o SubSeq(s, m[2] + 1, Len(s))

\* filename.py:152-155 -- the values of one combination, substituted in turn
RECURSIVE ApplyCombo(_, _)
ApplyCombo(s, combo) ==
    IF combo = <<>> THEN s
    ELSE ApplyCombo(SubFirst(s, Strip(Head(combo))), Tail(combo))

\* [x + (y,) for y in pool]
RECURSIVE AppendEach(_, _)
AppendEach(x, pool) ==
    IF pool = <<>> THEN <<>>
    ELSE <<Append(x, Head(pool))>> \o AppendEach(x, Tail(pool))

\* [x + (y,) for x in result for y in pool]
RECURSIVE ExtendAll(_, _)
ExtendAll(result, pool) ==
    IF result = <<>> THEN <<>>
    ELSE AppendEach(Head(result), pool) \o ExtendAll(Tail(result), pool)

RECURSIVE ProductFrom(_, _)
ProductFrom(result, pools) ==
    IF pools = <<>> THEN result
    ELSE ProductFrom(ExtendAll(result, Head(pools)), Tail(pools))

\* filename.py:147 -- list(itertools.product(*options))
Product(pools) == ProductFrom(<< <<>> >>, pools)

\* the sequence [f(x) for x in xs]
MapSeq(xs, f(_)) == [k \in 1..Len(xs) |-> f(xs[k])]

\* filename.py:128-158
parse_prompt_variations(prompt) ==
    LET variation_blocks == FindBlocks(prompt)
        options == MapSeq(variation_blocks, Split)
        combinations == Product(options)
    IN  IF variation_blocks = <<>>
          THEN [prompts |-> <<prompt>>, blocks |-> <<>>]
          ELSE [prompts |-> MapSeq(combinations,
                                   LAMBDA combo : ApplyCombo(prompt, combo)),
                blocks |-> variation_blocks]

\* image.py:141-149 -- model_mapping.get(model_name, model_name)
normalize_model_name(m) ==
    IF m = <<"image4">> THEN <<"image4_standard">>
    ELSE IF m = <<"ultra">> THEN <<"image4_ultra">>
    ELSE m

\* image.py:206-215; for '[' in s and ']' in s see image.py:207
parse_style_ref_variations(s) ==
    LET m == BlockMatch(s, 1)
    IN  IF IndexFrom(s, "[", 1) # 0 /\ IndexFrom(s, "]", 1) # 0 /\ m[1] # 0
          THEN MapSeq(Split(SubSeq(s, m[1] + 1, m[2] - 1)), Strip)
          ELSE IF s # <<>> THEN <<s>> ELSE <<>>

\* image.py:183-194
parse_model_variations(s) ==
    LET m == BlockMatch(s, 1)
    IN  IF IndexFrom(s, "[", 1) # 0 /\ IndexFrom(s, "]", 1) # 0 /\ m[1] # 0
          THEN MapSeq(MapSeq(Split(SubSeq(s, m[1] + 1, m[2] - 1)), Strip),
                      normalize_model_name)
          ELSE <<normalize_model_name(s)>>

\* commands.py:180
STANDARD_MODELS ==
    {<<"image3">>, <<"image4">>, <<"image4_standard">>, <<"image4_ultra">>,
     <<"ultra">>}

\* commands.py:590 and :593 -- the axis of a reference that is not given
NoneRef == <<"None">>

\* the pieces the prompts of the model are made of: text, a block of two
\* options, a block of one option with spaces, an empty block and single
\* brackets
PromptSegments ==
    {<<"a", " ">>, <<"[", "cat", ",", "dog", "]">>,
     <<"[", " ", "cat", " ", "]">>, <<"[", "]">>, <<"[">>, <<"]">>}

RECURSIVE PromptsOf(_)
PromptsOf(k) ==
    IF k = 1 THEN PromptSegments
    ELSE PromptsOf(k - 1) \cup
         {q \o sg : q \in PromptsOf(k - 1), sg \in PromptSegments}

ModelStrings ==
    {<<"image3">>, <<"[", "image3", ",", "image4", "]">>, <<"[", "]">>}

RefStrings == {<<>>, <<"s1">>, <<"[", "s1", ",", " ", "s2", "]">>}

\* a variant that accepts one value more: range(1, 6)
InChoicesUpTo5(n) == n \in 1..5

\* parsers.py:16, :50 and :92 -- choices=range(1, 5)
InChoices(n) == n \in 1..4

\* commands.py:754 and :1811 -- 1 <= args.numVariations <= 4
ValidCount(n) == 1 <= n /\ n <= 4

\* the concatenation of Body(x) for x in xs, in the order of xs
ForEach(xs, Body(_)) ==
    LET F[k \in 0..Len(xs)] ==
            IF k = 0 THEN <<>> ELSE F[k - 1] \o Body(xs[k])
    IN  F[Len(xs)]

\* a variant with one iteration too many: range(n + 1)
IterationRangeInclusive(n) == [k \in 1..(n + 1) |-> k - 1]

\* commands.py:728, :835 and :1921 -- range(args.numVariations)
IterationRange(n) == [k \in 1..n |-> k - 1]

Task(m, sr, cr, pr, j) ==
    [model |-> m, style_ref |-> sr, composition_ref |-> cr, prompt |-> pr,
     j |-> j]

\* a variant whose prompt loop is the outermost loop
TaskMatrixPromptOuter(models, srefs, crefs, prompts, n) ==
    ForEach(prompts, LAMBDA pr :
      ForEach(models, LAMBDA m :
        ForEach(srefs, LAMBDA sr :
          ForEach(crefs, LAMBDA cr :
            ForEach(IterationRange(n), LAMBDA j :
              <<Task(m, sr, cr, pr, j)>>)))))

\* commands.py:724-732 -- the loops around executor.submit(image_task, ...)
TaskMatrix(models, srefs, crefs, prompts, n) ==
    ForEach(models, LAMBDA m :
      ForEach(srefs, LAMBDA sr :
        ForEach(crefs, LAMBDA cr :
          ForEach(prompts, LAMBDA pr :
            ForEach(IterationRange(n), LAMBDA j :
              <<Task(m, sr, cr, pr, j)>>)))))

\* the command line: a command whose parser has -n (parsers.py:13-17,
\* :47-51 and :85-92) and the arguments the command reads
XInit ==
    /\ xcmd \in {"image", "similar", "fill"}
    /\ xmodel \in ModelStrings
    /\ xprompt \in PromptsOf(MaxSegments)
    /\ xsref \in RefStrings
    /\ xcref \in RefStrings \ {<<"s1">>}
    /\ xn \in 0..MaxCount
    /\ xcmd # "image" => xsref = <<>> /\ xcref = <<>>
    /\ xcmd = "similar" => xprompt = <<"a", " ">>
    /\ xcmd = "fill" => xmodel = <<"image3">>
    /\ xpc = "parse"
    /\ xmodels = <<>>
    /\ xtasks = <<>>
    /\ xremote = 0

\* parsers.py:16, :50 and :92 -- argparse exits on a value outside choices
XParseArgs ==
    /\ xpc = "parse"
    /\ xpc' = IF InChoices(xn) THEN "handler" ELSE "usage_error"
    /\ UNCHANGED <<xcmd, xmodel, xprompt, xsref, xcref, xn, xmodels, xtasks,
                   xremote>>
    /\ UNCHANGED <<rlvars, bvars, pvars, cvars, fvars, yvars>>

\* commands.py:523-577 -- the models of args.model; a model that is not a
\* standard model is looked up in the custom models of the account
\* (commands.py:544), which has custom models or not, or fails
XImageResolve ==
    /\ xcmd = "image"
    /\ xpc = "handler"
    /\ LET model_variations == parse_model_variations(xmodel)
           custom == {k \in 1..Len(model_variations) :
                        Strip(model_variations[k]) \notin STANDARD_MODELS}
       IN  IF custom = {}
             THEN /\ xmodels' = MapSeq(model_variations, Strip)
                  /\ xpc' = "expand"
                  /\ UNCHANGED xremote
             ELSE \E answer \in {"matched", "no_models", "error"} :
                    CASE answer = "matched" ->
                           /\ xmodels' =
                                [k \in 1..Len(model_variations) |->
                                   IF k \in custom THEN <<"asset1">>
                                   ELSE Strip(model_variations[k])]
                           /\ xremote' = Cardinality(custom)
                           /\ xpc' = "expand"
                      [] answer = "no_models" ->
                           /\ xremote' = 1
                           /\ xpc' = "returned"
                           /\ UNCHANGED xmodels
                      [] OTHER ->
                           /\ xremote' = 1
                           /\ xpc' = "exit_error"
                           /\ UNCHANGED xmodels
    /\ UNCHANGED <<xcmd, xmodel, xprompt, xsref, xcref, xn, xtasks>>
    /\ UNCHANGED <<rlvars, bvars, pvars, cvars, fvars, yvars>>

\* commands.py:587-593 and :722-732
XImageExpand ==
    /\ xcmd = "image"
    /\ xpc = "expand"
    /\ LET prompts == parse_prompt_variations(xprompt).prompts
           style_refs == IF xsref # <<>>
                           THEN parse_style_ref_variations(xsref)
                           ELSE <<NoneRef>>
           composition_refs == IF xcref # <<>>
                                 THEN parse_style_ref_variations(xcref)
                                 ELSE <<NoneRef>>
       IN  xtasks' = TaskMatrix(xmodels, style_refs, composition_refs,
                                prompts, xn)
    /\ xpc' = "dispatched"
    /\ UNCHANGED <<xcmd, xmodel, xprompt, xsref, xcref, xn, xmodels,
                   xremote>>
    /\ UNCHANGED <<rlvars, bvars, pvars, cvars, fvars, yvars>>

\* commands.py:741-756 and :833-839 -- handle_similar_image_command
XSimilar ==
    /\ xcmd = "similar"
    /\ xpc = "handler"
    /\ LET model_versions == parse_model_variations(xmodel)
       IN  IF ~ValidCount(xn)
             THEN /\ xpc' = "exit_error"
                  /\ UNCHANGED <<xmodels, xtasks>>
             ELSE /\ xmodels' = model_versions
                  /\ xtasks' =
                       ForEach(model_versions, LAMBDA m :
                         ForEach(IterationRange(xn), LAMBDA j :
                           <<Task(m, NoneRef, NoneRef, <<>>, j)>>))
                  /\ xpc' = "dispatched"
    /\ UNCHANGED <<xcmd, xmodel, xprompt, xsref, xcref, xn, xremote>>
    /\ UNCHANGED <<rlvars, bvars, pvars, cvars, fvars, yvars>>

\* commands.py:1810-1822 and :1919-1925 -- handle_fill_command
XFill ==
    /\ xcmd = "fill"
    /\ xpc = "handler"
    /\ IF ~ValidCount(xn)
         THEN /\ xpc' = "exit_error"
              /\ UNCHANGED xtasks
         ELSE /\ xtasks' =
                   ForEach(parse_prompt_variations(xprompt).prompts,
                     LAMBDA pr :
                       ForEach(IterationRange(xn), LAMBDA j :
                         <<Task(<<>>, NoneRef, NoneRef, pr, j)>>))
              /\ xpc' = "dispatched"
    /\ UNCHANGED <<xcmd, xmodel, xprompt, xsref, xcref, xn, xmodels,
                   xremote>>
    /\ UNCHANGED <<rlvars, bvars, pvars, cvars, fvars, yvars>>

XNext ==
    \/ XParseArgs
    \/ XImageResolve
    \/ XImageExpand
    \/ XSimilar
    \/ XFill

InitExpand ==
    XInit /\ LimiterUnused /\ RLProcIdle /\ BIdle /\ PIdle /\ CIdle /\ FIdle
    /\ YIdle

SpecExpand == InitExpand /\ [][XNext]_vars

(***************************************************************************)
(* Properties of the batch handlers, checked under SpecBatch and SpecPTP.  *)
(***************************************************************************)
RECURSIVE SumRuns(_)
SumRuns(n) == IF n = 0 THEN 0 ELSE runs[n] + SumRuns(n - 1)

\* C4: the number of submission calls issued so far never exceeds the
\* number of admissions granted for submissions.
C4_SubmissionsAdmitted == totalSubs <= subAdm

\* C5: an error raised inside a work unit becomes a failed outcome; it never
\* leaves the work unit as an exception and never aborts the handler.
C5_ErrorsStayInWorkUnit ==
    /\ \A i \in Tasks : res[i] # "exc"
    /\ hpc \notin {"unwinding", "aborted"}

\* C6: when a batch run of the image handler is over, every task whose
\* first outcome was a failure has run exactly twice and every task whose
\* first outcome was a success exactly once.
C6_OneRetryPass ==
    hpc = "done" =>
        \A i \in Tasks :
            runs[i] = IF firstOutcome[i] = "true" THEN 1 ELSE 2

\* C7: at most 2*N work-unit invocations, each making at most
\* 1 + API_MAX_RETRIES submissions, and no more submissions than that in
\* total.
C7_SubmissionBound ==
    /\ SumRuns(NumTasks) <= 2 * NumTasks
    /\ \A i \in Tasks :
          ust[i] = "submit" => attempt[i] + 1 <= 1 + api_max_retries
    /\ totalSubs <= 2 * NumTasks * (1 + api_max_retries)

\* every invocation of both passes used every local resubmission
C7_Witness ==
    /\ hpc = "done"
    /\ api_max_retries >= 1
    /\ totalSubs = 2 * NumTasks * (1 + api_max_retries)

\* C8: the number of work units running at once is at most the throttle
\* limit, in the image handler and in process_tasks_parallel.
C8_PoolBoundedByThrottle ==
    /\ Cardinality(Running) <= throttle_limit
    /\ Cardinality(PRunning) <= throttle_limit

C10_AddressableBySequence ==
    ppc = "returned" =>
        \A k \in 1..Len(results) : results[k].task = k

(***************************************************************************)
(* Properties of RateLimiter.acquire, checked under SpecRL.                *)
(***************************************************************************)
\* C1: no trailing window of length period contains more than max_calls
\* admission timestamps; the (k+max_calls)-th admission is at least period
\* after the k-th.
C1_WindowBound ==
    /\ \A k \in 1..Len(admissions) :
          k + max_calls <= Len(admissions)
            => admissions[k + max_calls] - admissions[k] >= period
    /\ \A c \in Epoch..clock :
          Cardinality({i \in 1..Len(admissions) :
                         admissions[i] <= c /\ c - admissions[i] < period})
            <= max_calls

\* an admission that had to wait for the oldest timestamp to leave the window
C1_Witness ==
    /\ Len(admissions) > max_calls
    /\ admissions[max_calls + 1] = admissions[1] + period

\* C2: when min_delay > 0, consecutive admissions are at least min_delay
\* apart.
C2_MinDelaySpacing ==
    min_delay > 0 =>
        \A i \in 1..(Len(admissions) - 1) :
            admissions[i + 1] - admissions[i] >= min_delay

\* two admissions made by different workers, the second delayed by min_delay
C2_Witness ==
    /\ min_delay > 0
    /\ Len(admissions) >= 2
    /\ admissions[2] = admissions[1] + min_delay
    /\ \E w \in Workers : acquired[w] = 1 /\ \E v \in Workers \ {w} : acquired[v] = 1

\* C3: the lock is never held by a worker that is sleeping inside acquire().
C3_LockNotHeldAcrossSleep ==
    \A w \in Workers : pc[w] \in {"l22", "l30"} => lock # w

\* C22: every call of acquire() returns: again and again the lock is free
\* and every worker is outside acquire(), so that no call that has begun
\* stays inside and the lock is always handed on to the callers that wait
\* for it; the time a caller still has to sleep is never more than
\* min_delay (first sleep) or period (second sleep).
C22_AcquireReturns ==
    /\ []<>(lock = 0 /\ \A w \in Workers : pc[w] = "idle")
    /\ [](\A w \in Workers :
            /\ pc[w] = "l22" => wake[w] - clock <= min_delay
            /\ pc[w] = "l30" => wake[w] - clock <= period)

\* a worker has returned from a call in which it slept for the whole
\* period, after a call of another worker
C22_Witness ==
    \E w \in Workers :
      /\ acquired[w] >= 1
      /\ pc[w] = "idle"
      /\ lock = 0
      /\ period > 1
      /\ wake[w] = admissions[Len(admissions)]
      /\ Len(admissions) >= 2
      /\ wake[w] - admissions[Len(admissions) - 1] >= period
      /\ \E v \in Workers \ {w} : acquired[v] >= 1

\* C11: a submission answered with HTTP 429 is resubmitted inside the same
\* work-unit invocation while attempts remain: no work unit has ended on a
\* 429 with attempts left, and no such task is in the retry set.
C11_TooManyRequestsResubmitted ==
    /\ \A i \in Tasks : rejected[i] # 429
    /\ \A k \in 1..Len(failed_tasks) : rejected[failed_tasks[k]] # 429

\* C12: generate_image raises a 5xx error only once max_retries + 1
\* attempts have failed: it never raises on a 5xx answer while
\* attempt < max_retries.
C12_ServerErrorRetried ==
    \A i \in Tasks : ~(rejected[i] >= 500 /\ rejected[i] < 600)

(***************************************************************************)
(* Properties of check_job_status, checked under SpecCJS and SpecCJSFair.  *)
(***************************************************************************)
\* C13: check_job_status returns the status payload exactly when the
\* response read has status 'succeeded', raises the job-failed error with
\* the remote error detail exactly when it has status 'failed', and after
\* every other status sleeps 2 and asks again.
C13_PollOutcome ==
    /\ cjs_pc = "returned" <=> status_data.status = "succeeded"
    /\ cjs_pc = "returned" =>
          cjs_out = [kind |-> "payload", status |-> "succeeded",
                     error |-> status_data.error]
    /\ cjs_pc = "job_failed" <=> status_data.status = "failed"
    /\ cjs_pc = "job_failed" =>
          /\ cjs_out.kind = "job_failed"
          /\ status_data.error # "absent" =>
                cjs_out.error = status_data.error
          /\ status_data.error = "absent" => cjs_out.error = "Unknown error"
    /\ cjs_pc = "sleep" =>
          status_data.status \in RemoteStatuses \ TerminalStatuses
    /\ (cjs_pc = "request" /\ cjs_polls > 0) =>
          /\ status_data.status \in RemoteStatuses \ TerminalStatuses
          /\ waited = 2
    /\ cjs_pc # "loop_exit"

C13_Witness ==
    /\ cjs_pc = "job_failed"
    /\ cjs_polls >= 2
    /\ cjs_out.error = "quota_exceeded"

RECURSIVE CountOf(_, _)
CountOf(s, c) ==
    IF s = <<>> THEN 0
    ELSE (IF Head(s) = c THEN 1 ELSE 0) + CountOf(Tail(s), c)

\* the number of options of a bracket block
OptionCount(block) == CountOf(block, ",") + 1

\* the size of the axis of a parameter that is read for one bracket block
AxisSize(s) ==
    LET m == BlockMatch(s, 1)
    IN  IF m[1] = 0 THEN 1 ELSE OptionCount(SubSeq(s, m[1] + 1, m[2] - 1))

RECURSIVE ProductOf(_)
ProductOf(sizes) ==
    IF sizes = <<>> THEN 1 ELSE Head(sizes) * ProductOf(Tail(sizes))

\* the sizes of the bracket blocks of a prompt
BlockSizes(prompt) == MapSeq(FindBlocks(prompt), OptionCount)

\* C15: the number of tasks is the product of the axis sizes: models x
\* style references x composition references x options of every bracket
\* block of the prompt x iteration count.
C15_TaskCount ==
    xpc = "dispatched" =>
      Len(xtasks) =
        CASE xcmd = "image" ->
               AxisSize(xmodel) * AxisSize(xsref) * AxisSize(xcref)
                 * ProductOf(BlockSizes(xprompt)) * xn
          [] xcmd = "similar" -> AxisSize(xmodel) * xn
          [] OTHER -> ProductOf(BlockSizes(xprompt)) * xn

C15_Witness ==
    /\ xpc = "dispatched"
    /\ xcmd = "image"
    /\ Len(FindBlocks(xprompt)) = 2
    /\ Len(xtasks) = 32

\* the digit of axis i in the mixed-radix representation of q, the last
\* axis being the fastest
RECURSIVE Weight(_, _)
Weight(sizes, i) ==
    IF i >= Len(sizes) THEN 1 ELSE sizes[i + 1] * Weight(sizes, i + 1)

Digit(q, sizes, i) == (q \div Weight(sizes, i)) % sizes[i]

\* the prompt of number q (from 0): block i replaced by the option of
\* number Digit(q, sizes, i) of the block, blocks taken left to right
PromptNumber(prompt, q) ==
    LET blocks == FindBlocks(prompt)
        sizes == BlockSizes(prompt)
    IN  IF blocks = <<>> THEN prompt
        ELSE ApplyCombo(prompt,
               [i \in 1..Len(blocks) |->
                  Split(blocks[i])[Digit(q, sizes, i) + 1]])

\* the values of the axis of a reference
RefAxis(s) == IF s # <<>> THEN parse_style_ref_variations(s) ELSE <<NoneRef>>

\* C16: the tasks are submitted in the order model, style reference,
\* composition reference, prompt, iteration index (outer to inner), and
\* the prompts in the order of their bracket blocks, the rightmost block
\* varying fastest.
C16_SubmissionOrder ==
    (xpc = "dispatched" /\ xcmd = "image") =>
      LET sizes == <<Len(xmodels), Len(RefAxis(xsref)), Len(RefAxis(xcref)),
                     ProductOf(BlockSizes(xprompt)), xn>>
      IN  \A k \in 1..Len(xtasks) :
            xtasks[k] =
              [model |-> xmodels[Digit(k - 1, sizes, 1) + 1],
               style_ref |-> RefAxis(xsref)[Digit(k - 1, sizes, 2) + 1],
               composition_ref |->
                 RefAxis(xcref)[Digit(k - 1, sizes, 3) + 1],
               prompt |-> PromptNumber(xprompt, Digit(k - 1, sizes, 4)),
               j |-> Digit(k - 1, sizes, 5)]

\* model=[image3,image4], prompt "a [cat,dog]", iterations=1
C16_Witness ==
    /\ xpc = "dispatched"
    /\ xcmd = "image"
    /\ xmodel = <<"[", "image3", ",", "image4", "]">>
    /\ xprompt = <<"a", " ", "[", "cat", ",", "dog", "]">>
    /\ xsref = <<>> /\ xcref = <<>> /\ xn = 1
    /\ xtasks =
         <<Task(<<"image3">>, NoneRef, NoneRef, <<"a", " ", "cat">>, 0),
           Task(<<"image3">>, NoneRef, NoneRef, <<"a", " ", "dog">>, 0),
           Task(<<"image4_standard">>, NoneRef, NoneRef,
                <<"a", " ", "cat">>, 0),
           Task(<<"image4_standard">>, NoneRef, NoneRef,
                <<"a", " ", "dog">>, 0)>>

\* the string contains an empty bracket list
HasEmptyList(s) ==
    \E i \in 1..(Len(s) - 1) : s[i] = "[" /\ s[i + 1] = "]"

\* C17: a parameter string with an empty bracket list '[]' is rejected
\* before any remote call; no task is produced from it.
C17_EmptyAxisRejected ==
    (\E s \in {xmodel, xprompt, xsref, xcref} : HasEmptyList(s)) =>
      /\ xtasks = <<>>
      /\ xremote = 0
      /\ xpc \notin {"dispatched", "returned"}

MaxRenders == 2
MaxWall == 1
MaxFiles == 2

Digits == <<"0", "1", "2", "3", "4", "5", "6", "7", "8", "9">>

\* str(k) for k >= 0
RECURSIVE Str(_)
Str(k) ==
    IF k < 10 THEN <<Digits[k + 1]>>
    ELSE Str(k \div 10) \o <<Digits[(k % 10) + 1]>>

\* str.rfind(c) + 1: the last position of character c in s, 0 if none
LastIndexOf(s, c) ==
    LET I == {i \in 1..Len(s) : s[i] = c}
    IN  IF I = {} THEN 0 ELSE CHOOSE i \in I : \A j \in I : j <= i

RECURSIVE RStripSlash(_)
RStripSlash(s) ==
    IF s # <<>> /\ s[Len(s)] = "/"
      THEN RStripSlash(SubSeq(s, 1, Len(s) - 1)) ELSE s

\* os.path.dirname
dirname(p) ==
    LET head == SubSeq(p, 1, LastIndexOf(p, "/"))
    IN  IF head # <<>> /\ (\E j \in 1..Len(head) : head[j] # "/")
          THEN RStripSlash(head) ELSE head

\* os.path.splitext: the extension starts at the last dot of the last
\* component, unless only dots precede it there
splitext(p) ==
    LET sep == LastIndexOf(p, "/")
        dot == LastIndexOf(p, ".")
    IN  IF dot > sep /\ (\E j \in (sep + 1)..(dot - 1) : p[j] # ".")
          THEN [name |-> SubSeq(p, 1, dot - 1), ext |-> SubSeq(p, dot, Len(p))]
          ELSE [name |-> p, ext |-> <<>>]

\* filename.py:123 -- f"{name}_{counter}{ext}"
NewFilename(name, k, ext) == name \o <<"_">> \o Str(k) \o ext

\* strftime('%Y%m%d') and strftime('%H%M%S'): one string per day, one per
\* second of the day
DateStr(w) == <<"day">> \o Str(w.day)
TimeStr(w) == <<"sec">> \o Str(w.sec)

\* filename.py:176 -- the prompt is cut to 30 characters
PromptLimit == 30

\* str.replace(' ', '_')
ReplaceSpaces(s) == [i \in 1..Len(s) |-> IF s[i] = " " THEN "_" ELSE s[i]]

\* filename.py:175-187 -- the patterns modelled, with their replacements
TokenPatterns == {"{prompt}", "{date}", "{time}", "{datetime}", "{model}",
                  "{n}"}

TokenValue(pattern, t, w) ==
    CASE pattern = "{prompt}" ->
           LET v == ReplaceSpaces(t.prompt)
           IN  SubSeq(v, 1, IF Len(v) < PromptLimit THEN Len(v)
                            ELSE PromptLimit)
      [] pattern = "{date}" -> DateStr(w)
      [] pattern = "{time}" -> TimeStr(w)
      [] pattern = "{datetime}" -> DateStr(w) \o <<"_">> \o TimeStr(w)
      [] pattern = "{model}" -> t.model
      [] pattern = "{n}" -> Str(t.iteration)

\* filename.py:194-202 -- every occurrence of every pattern is replaced; w is
\* what datetime.now(UTC) returns during the call
RECURSIVE replace_filename_tokens(_, _, _)
replace_filename_tokens(filename, t, w) ==
    IF filename = <<>> THEN <<>>
    ELSE (IF Head(filename) \in TokenPatterns
            THEN TokenValue(Head(filename), t, w)
            ELSE <<Head(filename)>>)
         \o replace_filename_tokens(Tail(filename), t, w)

\* ' ' in option or option in prompt: s occurs in t as a substring
Contains(t, s) ==
    \E i \in 0..(Len(t) - Len(s)) : SubSeq(t, i + 1, i + Len(s)) = s

\* filename.py:225-230 -- the first option of a block that occurs in the prompt
RECURSIVE FirstOptionIn(_, _)
FirstOptionIn(options, prompt) ==
    IF options = <<>> THEN <<>>
    ELSE IF Contains(prompt, Strip(Head(options)))
           THEN <<Strip(Head(options))>>
           ELSE FirstOptionIn(Tail(options), prompt)

\* filename.py:220-230 -- the values used in this prompt
RECURSIVE ValuesOf(_, _)
ValuesOf(blocks, prompt) ==
    IF blocks = <<>> THEN <<>>
    ELSE FirstOptionIn(Split(Head(blocks)), prompt)
         \o ValuesOf(Tail(blocks), prompt)

\* characters for which neither isalnum() nor isspace() holds
Special == {"[", "]", ",", "_", "/", ".", "-"}

RECURSIVE Clean(_)
Clean(v) ==
    IF v = <<>> THEN <<>>
    ELSE (IF Head(v) \in Special THEN <<>> ELSE <<Head(v)>>) \o Clean(Tail(v))

\* '_'.join(...)
RECURSIVE JoinUnderscore(_)
JoinUnderscore(vs) ==
    IF vs = <<>> THEN <<>>
    ELSE IF Len(vs) = 1 THEN Head(vs)
    ELSE Head(vs) \o <<"_">> \o JoinUnderscore(Tail(vs))

\* filename.py:233
variation_suffix(values) == JoinUnderscore(MapSeq(values, LAMBDA v : Clean(v)))

\* filename.py:204-246; image_task always passes a non-empty tokens
get_variation_filename(base, prompt, original_prompt, t, w) ==
    LET se == splitext(base)
        values == ValuesOf(FindBlocks(original_prompt), prompt)
        replaced == replace_filename_tokens(se.name, t, w)
        name == IF ~Contains(base, <<"{model}">>) /\ t.model # <<>>
                  THEN replaced \o <<"_">> \o t.model
                  ELSE replaced
    IN  name \o <<"_">> \o variation_suffix(values) \o se.ext


\* filename.py:114 without the overwrite flag
KeepsBaseIfUnused(ow, fs, p) == p \notin fs

\* filename.py:114 -- overwrite or not os.path.exists(base_filename)
KeepsBase(ow, fs, p) == ow \/ p \notin fs

\* args.output: a directory with tokens, the clock tokens, a name without
\* extension, a name without tokens
Templates ==
    { <<"out", "/", "{model}", "_", "{n}", ".", "png">>,
      <<"{time}", ".", "png">>,
      <<"{date}", "_", "{prompt}">>,
      <<"{datetime}", ".", "png">>,
      <<"x", ".", "png">> }

\* one task of a prompt without variations, one of a prompt with a block
FTasks ==
    { [original_prompt |-> <<"a", " ", "cat">>, prompt |-> <<"a", " ", "cat">>,
       model |-> <<"image3">>, iteration |-> 1],
      [original_prompt |-> <<"a", " ", "[", "cat", ",", " ", "dog", "]">>,
       prompt |-> <<"a", " ", "dog">>,
       model |-> <<"image3">>, iteration |-> 2] }

FInit ==
    /\ output \in Templates
    /\ ftask \in FTasks
    /\ overwrite \in BOOLEAN
    /\ wall = [day |-> 0, sec |-> 0]
    /\ files = {}
    /\ fpc = "idle"
    /\ base_filename = <<>>
    /\ counter = 1
    /\ output_filename = <<>>
    /\ renders = 0
    /\ prior = FALSE
    /\ rendered = <<>>

\* the paths get_unique_filename may test for the current base_filename
Candidates(base) ==
    {base} \cup {NewFilename(splitext(base).name, k, splitext(base).ext) :
                   k \in 1..MaxFiles}

\* get_unique_filename returns p
Return(p) ==
    /\ output_filename' = p
    /\ fpc' = "returned"
    /\ rendered' = Append(rendered, [base |-> base_filename, path |-> p,
                                     prior |-> prior])

\* commands.py:613-622 -- the task builds its tokens and renders the template
FRender ==
    /\ fpc = "idle"
    /\ renders < MaxRenders
    /\ base_filename' = get_variation_filename(output, ftask.prompt,
                                               ftask.original_prompt, ftask,
                                               wall)
    /\ renders' = renders + 1
    /\ prior' = (rendered # <<>> /\ rendered[1].path \in files)
    /\ fpc' = "makedirs"
    /\ UNCHANGED <<output, ftask, overwrite, wall, files, counter,
                   output_filename, rendered>>
    /\ UNCHANGED <<rlvars, bvars, pvars, cvars, evars, yvars>>

\* filename.py:104-112 -- os.makedirs succeeds or raises
FMakedirs ==
    /\ fpc = "makedirs"
    /\ IF dirname(base_filename) = <<>>
         THEN fpc' = "check"
         ELSE \E ok \in BOOLEAN : fpc' = IF ok THEN "check" ELSE "raised"
    /\ UNCHANGED <<output, ftask, overwrite, wall, files, base_filename,
                   counter, output_filename, renders, prior, rendered>>
    /\ UNCHANGED <<rlvars, bvars, pvars, cvars, evars, yvars>>

\* filename.py:114-119
FCheck ==
    /\ fpc = "check"
    /\ IF KeepsBase(overwrite, files, base_filename)
         THEN Return(base_filename) /\ UNCHANGED counter
         ELSE /\ counter' = 1
              /\ fpc' = "loop"
              /\ UNCHANGED <<output_filename, rendered>>
    /\ UNCHANGED <<output, ftask, overwrite, wall, files, base_filename,
                   renders, prior>>
    /\ UNCHANGED <<rlvars, bvars, pvars, cvars, evars, yvars>>

\* filename.py:122-126 -- one iteration of the loop
FLoop ==
    /\ fpc = "loop"
    /\ LET se == splitext(base_filename)
           new_filename == NewFilename(se.name, counter, se.ext)
       IN  IF new_filename \notin files
             THEN Return(new_filename) /\ UNCHANGED counter
             ELSE /\ counter' = counter + 1
                  /\ UNCHANGED <<fpc, output_filename, rendered>>
    /\ UNCHANGED <<output, ftask, overwrite, wall, files, base_filename,
                   renders, prior>>
    /\ UNCHANGED <<rlvars, bvars, pvars, cvars, evars, yvars>>

\* commands.py:2182-2210 -- download_file writes the image to the returned
\* path, or fails and writes nothing
FDownload ==
    /\ fpc = "returned"
    /\ \E ok \in BOOLEAN :
         files' = IF ok THEN files \cup {output_filename} ELSE files
    /\ fpc' = "idle"
    /\ UNCHANGED <<output, ftask, overwrite, wall, base_filename, counter,
                   output_filename, renders, prior, rendered>>
    /\ UNCHANGED <<rlvars, bvars, pvars, cvars, evars, yvars>>

\* filename.py:112 -- the exception leaves get_unique_filename and the task
FRaised ==
    /\ fpc = "raised"
    /\ fpc' = "idle"
    /\ UNCHANGED <<output, ftask, overwrite, wall, files, base_filename,
                   counter, output_filename, renders, prior, rendered>>
    /\ UNCHANGED <<rlvars, bvars, pvars, cvars, evars, yvars>>

\* a second passes
FTickSecond ==
    /\ wall.day + wall.sec < MaxWall
    /\ wall' = [wall EXCEPT !.sec = @ + 1]
    /\ UNCHANGED <<output, ftask, overwrite, files, fpc, base_filename,
                   counter, output_filename, renders, prior, rendered>>
    /\ UNCHANGED <<rlvars, bvars, pvars, cvars, evars, yvars>>

\* midnight (UTC) passes
FTickDay ==
    /\ wall.day + wall.sec < MaxWall
    /\ wall' = [day |-> wall.day + 1, sec |-> 0]
    /\ UNCHANGED <<output, ftask, overwrite, files, fpc, base_filename,
                   counter, output_filename, renders, prior, rendered>>
    /\ UNCHANGED <<rlvars, bvars, pvars, cvars, evars, yvars>>

\* commands.py:2197 in another task of the pool: a file appears at one of the
\* paths this call may test
SiblingWrites ==
    /\ fpc \in {"makedirs", "check", "loop", "returned"}
    /\ Cardinality(files) < MaxFiles
    /\ \E p \in Candidates(base_filename) \ files : files' = files \cup {p}
    /\ UNCHANGED <<output, ftask, overwrite, wall, fpc, base_filename,
                   counter, output_filename, renders, prior, rendered>>
    /\ UNCHANGED <<rlvars, bvars, pvars, cvars, evars, yvars>>

FNext ==
    \/ FRender
    \/ FMakedirs
    \/ FCheck
    \/ FLoop
    \/ FDownload
    \/ FRaised
    \/ FTickSecond
    \/ FTickDay
    \/ SiblingWrites

InitFile ==
    FInit /\ LimiterUnused /\ RLProcIdle /\ BIdle /\ PIdle /\ CIdle /\ EIdle
    /\ YIdle

SpecFile == InitFile /\ [][FNext]_vars

\* the path with the numeric suffix k before the extension
Suffixed(p, k) ==
    LET sep == LastIndexOf(p, "/")
        dot == LastIndexOf(p, ".")
        cut == IF dot > sep /\ (\E j \in (sep + 1)..(dot - 1) : p[j] # ".")
                 THEN dot - 1 ELSE Len(p)
    IN  SubSeq(p, 1, cut) \o <<"_">> \o Str(k) \o SubSeq(p, cut + 1, Len(p))

\* C19: when get_unique_filename returns, the value is the path it was given
\* if overwrite is set or no file exists at that path; otherwise it is the
\* path with the suffix _k before the extension for the smallest k >= 1 at
\* which no file exists; without overwrite the value names no existing file
\* at the moment of the return.
C19_UniqueFilename ==
    [][ (fpc \in {"check", "loop"} /\ fpc' = "returned") =>
          /\ (overwrite \/ base_filename \notin files')
               => output_filename' = base_filename
          /\ (~overwrite /\ base_filename \in files')
               => \E k \in 1..(Cardinality(files') + 1) :
                     /\ output_filename' = Suffixed(base_filename, k)
                     /\ \A j \in 1..(k - 1) :
                          Suffixed(base_filename, j) \in files'
          /\ ~overwrite => output_filename' \notin files' ]_vars

\* the template out/{model}_{n}.png is resolved while the rendered path and
\* its _1 sibling exist, and _2 is returned
C19_Witness ==
    /\ output = <<"out", "/", "{model}", "_", "{n}", ".", "png">>
    /\ ~overwrite
    /\ fpc = "returned"
    /\ base_filename \in files
    /\ Suffixed(base_filename, 1) \in files
    /\ output_filename = Suffixed(base_filename, 2)

\* C20: with overwrite set every render of the same task yields the same
\* path, whatever the template; without it a render that begins after the
\* file of the first render exists yields a path with a numeric suffix,
\* different from the first.
C20_RenderIdempotent ==
    /\ overwrite =>
         \A i, j \in 1..Len(rendered) : rendered[i].path = rendered[j].path
    /\ ~overwrite =>
         \A i \in 2..Len(rendered) :
           rendered[i].prior =>
             /\ rendered[i].path # rendered[1].path
             /\ \E k \in 1..(MaxFiles + MaxRenders + 1) :
                  rendered[i].path = Suffixed(rendered[i].base, k)


(***************************************************************************)
(* Sibling tasks of one image batch (image_task, commands.py:610-713):     *)
(* the iterations of one prompt and model, run by the workers of the pool  *)
(* of commands.py:723.  Each resolves its output path before the remote    *)
(* job is submitted (commands.py:623) and writes the file after the job    *)
(* has finished (commands.py:655).                                         *)
(***************************************************************************)
\* args.output: without an iteration token, with one, with a directory
SiblingTemplates ==
    { <<"x", ".", "png">>,
      <<"x", "_", "{n}", ".", "png">>,
      <<"out", "/", "{model}", ".", "png">> }

\* commands.py:613-621 -- the tokens of iteration j + 1 = i
SiblingTokens(i) ==
    [original_prompt |-> <<"a", " ", "cat">>, prompt |-> <<"a", " ", "cat">>,
     model |-> <<"image3">>, iteration |-> i]

SiblingBase(tpl, i) ==
    get_variation_filename(tpl, SiblingTokens(i).prompt,
                           SiblingTokens(i).original_prompt, SiblingTokens(i),
                           [day |-> 0, sec |-> 0])

\* the output directory is empty, or holds the file of an earlier run
SInit ==
    /\ output \in SiblingTemplates
    /\ overwrite \in BOOLEAN
    /\ files \in {{}, {SiblingBase(output, 1)}}
    /\ ftask = SiblingTokens(1)
    /\ wall = [day |-> 0, sec |-> 0]
    /\ fpc = "idle"
    /\ base_filename = <<>>
    /\ counter = 1
    /\ output_filename = <<>>
    /\ renders = 0
    /\ prior = FALSE
    /\ rendered = <<>>
    /\ SIdle
    /\ TIdle /\ VIdle /\ HIdle /\ LIdle

\* commands.py:613-622 and filename.py:104-112
SRender(i) ==
    /\ sib_pc[i] = "idle"
    /\ sib_base' = [sib_base EXCEPT ![i] = SiblingBase(output, i)]
    /\ IF dirname(SiblingBase(output, i)) = <<>>
         THEN sib_pc' = [sib_pc EXCEPT ![i] = "check"]
         ELSE \E ok \in BOOLEAN :
                sib_pc' = [sib_pc EXCEPT ![i] = IF ok THEN "check"
                                                ELSE "raised"]
    /\ sib_res' = IF sib_pc'[i] = "raised"
                    THEN [sib_res EXCEPT ![i] = "exc"] ELSE sib_res
    /\ UNCHANGED <<sib_counter, sib_out, sib_wrote>>
    /\ UNCHANGED <<rlvars, bvars, pvars, cvars, evars, fvars>>
    /\ UNCHANGED <<tvars, vvars, hvars, lvars>>

\* filename.py:114-119
SCheck(i) ==
    /\ sib_pc[i] = "check"
    /\ IF KeepsBase(overwrite, files, sib_base[i])
         THEN /\ sib_out' = [sib_out EXCEPT ![i] = sib_base[i]]
              /\ sib_pc' = [sib_pc EXCEPT ![i] = "resolved"]
              /\ UNCHANGED sib_counter
         ELSE /\ sib_counter' = [sib_counter EXCEPT ![i] = 1]
              /\ sib_pc' = [sib_pc EXCEPT ![i] = "loop"]
              /\ UNCHANGED sib_out
    /\ UNCHANGED <<sib_base, sib_wrote, sib_res>>
    /\ UNCHANGED <<rlvars, bvars, pvars, cvars, evars, fvars>>
    /\ UNCHANGED <<tvars, vvars, hvars, lvars>>

\* filename.py:122-126 -- one iteration of the loop
SLoop(i) ==
    /\ sib_pc[i] = "loop"
    /\ LET se == splitext(sib_base[i])
           new_filename == NewFilename(se.name, sib_counter[i], se.ext)
       IN  IF new_filename \notin files
             THEN /\ sib_out' = [sib_out EXCEPT ![i] = new_filename]
                  /\ sib_pc' = [sib_pc EXCEPT ![i] = "resolved"]
                  /\ UNCHANGED sib_counter
             ELSE /\ sib_counter' = [sib_counter EXCEPT ![i] = @ + 1]
                  /\ UNCHANGED <<sib_pc, sib_out>>
    /\ UNCHANGED <<sib_base, sib_wrote, sib_res>>
    /\ UNCHANGED <<rlvars, bvars, pvars, cvars, evars, fvars>>
    /\ UNCHANGED <<tvars, vvars, hvars, lvars>>

\* commands.py:627-651 and :681-713 -- the job is submitted and polled; it
\* ends with outputs, without outputs (return False), or with an exception
\* (return False)
SGenerate(i) ==
    /\ sib_pc[i] = "resolved"
    /\ \E r \in {"outputs", "no_outputs", "error"} :
         /\ sib_pc' = [sib_pc EXCEPT ![i] = IF r = "outputs" THEN "download"
                                            ELSE "failed"]
         /\ sib_res' = IF r = "outputs" THEN sib_res
                       ELSE [sib_res EXCEPT ![i] = "false"]
    /\ UNCHANGED <<sib_base, sib_counter, sib_out, sib_wrote>>
    /\ UNCHANGED <<rlvars, bvars, pvars, cvars, evars, fvars>>
    /\ UNCHANGED <<tvars, vvars, hvars, lvars>>

\* commands.py:655-680 and 2182-2210 -- download_file opens output_filename
\* for writing, or fails before that and returns False; its return value is
\* not used: the task prints "Generated", logs success and returns True
SDownload(i) ==
    /\ sib_pc[i] = "download"
    /\ \E ok \in BOOLEAN :
         /\ files' = IF ok THEN files \cup {sib_out[i]} ELSE files
         /\ sib_wrote' = IF ok THEN [sib_wrote EXCEPT ![i] = sib_out[i]]
                         ELSE sib_wrote
    /\ sib_pc' = [sib_pc EXCEPT ![i] = "done"]
    /\ sib_res' = [sib_res EXCEPT ![i] = "true"]
    /\ UNCHANGED <<sib_base, sib_counter, sib_out>>
    /\ UNCHANGED <<output, ftask, overwrite, wall, fpc, base_filename,
                   counter, output_filename, renders, prior, rendered>>
    /\ UNCHANGED <<rlvars, bvars, pvars, cvars, evars>>
    /\ UNCHANGED <<tvars, vvars, hvars, lvars>>

SNext ==
    \/ \E i \in Siblings : SRender(i)
    \/ \E i \in Siblings : SCheck(i)
    \/ \E i \in Siblings : SLoop(i)
    \/ \E i \in Siblings : SGenerate(i)
    \/ \E i \in Siblings : SDownload(i)

InitSiblings ==
    SInit /\ LimiterUnused /\ RLProcIdle /\ BIdle /\ PIdle /\ CIdle /\ EIdle

SpecSiblings == InitSiblings /\ [][SNext]_vars

\* C21: without overwrite, no two sibling tasks write their artifact to the
\* same path, whatever the interleaving of the workers.
C21_SiblingsWriteDistinctPaths ==
    ~overwrite =>
      \A i, j \in Siblings :
        (i # j /\ sib_wrote[i] # <<>> /\ sib_wrote[j] # <<>>)
          => sib_wrote[i] # sib_wrote[j]


\* C25: the task resubmitted after a 429 and the cool-down is the task whose
\* future raised, whatever the completion order; so no other task runs a
\* second time and the failed task gets its second attempt.
C25_ResubmitsFailedTask ==
    ppc = "await" => rtask = cur


\* C24: in the CSV batch no work unit of the retry pass is queued or running
\* while a work unit of the initial pass has not finished, and the failed
\* set is exactly the set of tasks whose initial work unit did not return
\* true.
C24_RetryAfterInitialPass ==
    mode = "csv" =>
      /\ (\E i \in Tasks : runs[i] >= 2 \/ (runs[i] = 1 /\ ust[i] = "queued"))
           => \A j \in Tasks : firstOutcome[j] # "none"
      /\ hpc \in {"retry_submit", "retry_collect", "done"}
           => /\ \A j \in Tasks : firstOutcome[j] # "none"
              /\ {failed_tasks[k] : k \in 1..Len(failed_tasks)}
                   = {j \in Tasks : firstOutcome[j] # "true"}

\* a retry work unit is running; another task succeeded in the initial pass
C24_Witness ==
    /\ mode = "csv"
    /\ \E i \in Tasks :
         /\ runs[i] = 2
         /\ ust[i] = "submit"
         /\ firstOutcome[i] = "false"
         /\ \E j \in Tasks \ {i} : firstOutcome[j] = "true" /\ runs[j] = 1


\* C27: a work unit returns true only if its artifact was written to its
\* resolved output path; when the download fails the work unit returns
\* false.
C27_SuccessMeansWritten ==
    \A i \in Siblings :
      /\ sib_res[i] = "true" => sib_wrote[i] = sib_out[i]
      /\ (sib_pc[i] = "done" /\ sib_wrote[i] = <<>>) => sib_res[i] = "false"


\* the options substituted for the blocks of the prompt in the prompt of
\* number q, as parse_prompt_variations strips them (filename.py:144)
ChosenOptions(prompt, q) ==
    LET blocks == FindBlocks(prompt)
        sizes == BlockSizes(prompt)
    IN  [i \in 1..Len(blocks) |->
           Strip(Split(blocks[i])[Digit(q, sizes, i) + 1])]

\* the number, among the prompts, of the prompt of the task submitted k-th
PromptIndex(k) ==
    Digit(k - 1, <<Len(xmodels), Len(RefAxis(xsref)), Len(RefAxis(xcref)),
                   ProductOf(BlockSizes(xprompt)), xn>>, 4)

\* filename.py:220-230, as image_task calls it (commands.py:622): the values
\* recorded for the task submitted k-th
RecordedValues(k) == ValuesOf(FindBlocks(xprompt), xtasks[k].prompt)

\* C28: the variation values recorded for a task are the options substituted
\* for the blocks in its prompt, and two tasks whose chosen options differ
\* do not get the same variation suffix.
C28_VariationValuesMatchOptions ==
    (xpc = "dispatched" /\ xcmd = "image") =>
      \A k \in 1..Len(xtasks) :
        /\ RecordedValues(k) = ChosenOptions(xprompt, PromptIndex(k))
        /\ \A l \in 1..Len(xtasks) :
             ChosenOptions(xprompt, PromptIndex(k))
                 # ChosenOptions(xprompt, PromptIndex(l))
               => variation_suffix(RecordedValues(k))
                    # variation_suffix(RecordedValues(l))


(***************************************************************************)
(* check_job_status with the limiter of its caller (commands.py:2148-2170, *)
(* called at commands.py:217 and :648 with rate_limiter, and elsewhere     *)
(* without).  The limiter has admitted the submission of the job.          *)
(***************************************************************************)
\* values of the environment variable THROTTLE_STATUS_REQUESTS
EnvValues == {"unset", "true", "True", "TRUE", "false", "1", ""}

\* str.lower() on these values
Lower(v) == IF v \in {"true", "True", "TRUE"} THEN "true" ELSE v

\* commands.py:2149 -- os.getenv(..., 'true').lower() == 'true'
throttle_status(v) == Lower(IF v = "unset" THEN "true" ELSE v) = "true"

\* a loop that asks the limiter whatever the environment says
ThrottledWheneverPassed(passed, v) == passed

\* commands.py:2153 -- if rate_limiter and throttle_status
Throttled(passed, v) == passed /\ throttle_status(v)

TInit ==
    /\ clock = Epoch
    /\ max_calls \in 1..MaxCallsBound
    /\ period = MaxPeriod
    /\ min_delay \in 0..MaxMinDelay
    /\ calls = <<Epoch>>
    /\ last_call_time = Epoch
    /\ admissions = <<Epoch>>
    /\ tpc = "top"
    /\ limiter_passed \in BOOLEAN
    /\ throttle_env \in EnvValues
    /\ treqs = 0
    /\ tacq = 0

\* commands.py:2151-2154 -- the top of the loop
TTop ==
    /\ tpc = "top"
    /\ IF Throttled(limiter_passed, throttle_env)
         THEN /\ Acquire
              /\ tacq' = tacq + 1
         ELSE /\ UNCHANGED <<clock, max_calls, period, min_delay, calls,
                             last_call_time, admissions>>
              /\ UNCHANGED tacq
    /\ tpc' = "request"
    /\ UNCHANGED <<limiter_passed, throttle_env, treqs>>
    /\ UNCHANGED <<rlproc, bvars, pvars, cvars, evars, fvars>>
    /\ UNCHANGED <<svars, vvars, hvars, lvars>>

\* commands.py:2156-2166 -- the status request and the handling of the
\* status
TRequest ==
    /\ tpc = "request"
    /\ treqs' = treqs + 1
    /\ \E a \in PollOutcomes :
         /\ (a = "running") => treqs' < MaxStatusRequests
         /\ tpc' = CASE a = "succeeded" -> "returned"
                     [] a = "running" -> "sleep"
                     [] OTHER -> "raised"
    /\ UNCHANGED <<limiter_passed, throttle_env, tacq>>
    /\ UNCHANGED <<rlvars, bvars, pvars, cvars, evars, fvars>>
    /\ UNCHANGED <<svars, vvars, hvars, lvars>>

\* commands.py:2170 -- time.sleep(2)
TSleep ==
    /\ tpc = "sleep"
    /\ clock' = clock + PollSleep
    /\ tpc' = "top"
    /\ UNCHANGED <<max_calls, period, min_delay, calls, last_call_time,
                   admissions>>
    /\ UNCHANGED <<limiter_passed, throttle_env, treqs, tacq>>
    /\ UNCHANGED <<rlproc, bvars, pvars, cvars, evars, fvars>>
    /\ UNCHANGED <<svars, vvars, hvars, lvars>>

TNext ==
    \/ TTop
    \/ TRequest
    \/ TSleep

InitPoll ==
    /\ TInit /\ RLProcIdle /\ BIdle /\ PIdle /\ CIdle /\ EIdle /\ FIdle
    /\ SIdle /\ VIdle /\ HIdle /\ LIdle

SpecPoll == InitPoll /\ [][TNext]_vars

\* C26: when a limiter is passed and THROTTLE_STATUS_REQUESTS is true (its
\* default), acquire() has been called once for every status request, the
\* last time just before the request; when no limiter is passed or the
\* variable is not true, the limiter's timestamps and last admission time
\* stay as they were, however long the loop runs.
C26_PollsThrottledWhenConfigured ==
    IF limiter_passed /\ throttle_env \in {"unset", "true", "True", "TRUE"}
      THEN /\ tacq = treqs + (IF tpc = "request" THEN 1 ELSE 0)
           /\ tpc = "request" =>
                last_call_time = clock /\ calls[Len(calls)] = clock
      ELSE /\ tacq = 0
           /\ calls = <<Epoch>>
           /\ last_call_time = Epoch

\* a throttled loop before its second request, and the limiter has moved
C26_Witness ==
    /\ limiter_passed
    /\ throttle_env = "unset"
    /\ tpc = "request"
    /\ treqs = 1
    /\ tacq = 2
    /\ last_call_time > Epoch + PollSleep


(***************************************************************************)
(* handle_video_command after the job has been submitted                   *)
(* (commands.py:2510-2593).                                                *)
(***************************************************************************)
MaxVideoRetries == 3
MaxRetryDelay == 2

\* what check_video_job_status gives: a status, a success without outputs
\* or video url, or a RequestException (video.py:204-211)
VideoOutcomes ==
    {"succeeded", "no_outputs", "failed", "running", "unknown", "request_error"}

\* what download_video does: writes the file, raises a RequestException,
\* or raises another error such as OSError (video.py:228-238)
DownloadOutcomes == {"written", "request_error", "os_error"}

\* commands.py:2579 -- retry_delay * (2 ** attempt)
wait_time(retry_delay, n) == retry_delay * (2 ^ n)

VInit ==
    /\ vpc = "for"
    /\ vmax \in 0..MaxVideoRetries
    /\ vdelay \in 1..MaxRetryDelay
    /\ vattempt = 0
    /\ vreqs = 0
    /\ vfailures = 0
    /\ vwaits = <<>>

VUnchangedOthers ==
    /\ UNCHANGED <<rlvars, bvars, pvars, cvars, evars, fvars>>
    /\ UNCHANGED <<svars, tvars, hvars, lvars>>

\* commands.py:2515 -- for attempt in range(max_retries); when the range is
\* exhausted control leaves the try block and the function returns
VFor ==
    /\ vpc = "for"
    /\ vpc' = IF vattempt < vmax THEN "poll" ELSE "fell_through"
    /\ UNCHANGED <<vmax, vdelay, vattempt, vreqs, vfailures, vwaits>>
    /\ VUnchangedOthers

\* commands.py:2577-2585 -- except requests.exceptions.RequestException
VRequestFailed ==
    /\ vfailures' = vfailures + 1
    /\ IF vattempt < vmax - 1
         THEN /\ vwaits' = Append(vwaits, wait_time(vdelay, vattempt))
              /\ vattempt' = vattempt + 1
              /\ vpc' = "for"
         ELSE /\ vpc' = "exit1"
              /\ UNCHANGED <<vwaits, vattempt>>

\* commands.py:2517-2575 -- one status request inside while True
VStatus ==
    /\ vpc = "poll"
    /\ vreqs' = vreqs + 1
    /\ \E a \in VideoOutcomes :
         /\ a \in {"running", "unknown"} => vreqs' < MaxStatusRequests
         /\ CASE a = "succeeded" ->
                   vpc' = "download" /\ UNCHANGED <<vfailures, vwaits, vattempt>>
              [] a \in {"no_outputs", "failed"} ->
                   vpc' = "exit1" /\ UNCHANGED <<vfailures, vwaits, vattempt>>
              [] a \in {"running", "unknown"} ->
                   vpc' = "poll" /\ UNCHANGED <<vfailures, vwaits, vattempt>>
              [] OTHER -> VRequestFailed
    /\ UNCHANGED <<vmax, vdelay>>
    /\ VUnchangedOthers

\* commands.py:2550-2560 -- download_video inside the same try block, then
\* return; an OSError reaches the outer handler (commands.py:2587-2593)
VDownload ==
    /\ vpc = "download"
    /\ \E d \in DownloadOutcomes :
         CASE d = "written" ->
                vpc' = "downloaded" /\ UNCHANGED <<vfailures, vwaits, vattempt>>
           [] d = "os_error" ->
                vpc' = "exit1" /\ UNCHANGED <<vfailures, vwaits, vattempt>>
           [] OTHER -> VRequestFailed
    /\ UNCHANGED <<vmax, vdelay, vreqs>>
    /\ VUnchangedOthers

VNext ==
    \/ VFor
    \/ VStatus
    \/ VDownload

InitVideo ==
    /\ VInit /\ LimiterUnused /\ RLProcIdle /\ BIdle /\ PIdle /\ CIdle
    /\ EIdle /\ FIdle /\ SIdle /\ TIdle /\ HIdle /\ LIdle

SpecVideo == InitVideo /\ [][VNext]_vars

VTerminated == vpc \in {"downloaded", "exit1", "fell_through"}

\* C29: every terminating run has downloaded the video or exited with an
\* error status, for every API_MAX_RETRIES >= 0; the k-th retry wait is
\* retry_delay * 2^(k-1); and once API_MAX_RETRIES request failures have
\* occurred the handler has exited with an error.
C29_DownloadedOrErrorExit ==
    /\ VTerminated => vpc \in {"downloaded", "exit1"}
    /\ \A k \in 1..Len(vwaits) : vwaits[k] = vdelay * (2 ^ (k - 1))
    /\ vfailures <= vmax
    /\ (vmax > 0 /\ vfailures = vmax) => vpc = "exit1"


(***************************************************************************)
(* RateLimiter.acquire with exact timing: a statement takes no time, a     *)
(* thread that can run does run, and time.sleep returns at the instant     *)
(* asked for (rate_limiter.py:13-35).  entered records the instant of      *)
(* each caller's latest call.                                              *)
(***************************************************************************)
\* the caller has called acquire() and has not been admitted yet
Calling(w) == entered[w].n = acquired[w] + 1

\* rate_limiter.py:13 -- a thread calls acquire()
AcqCall(w) ==
    /\ pc[w] = "idle"
    /\ ~Calling(w)
    /\ acquired[w] < MaxAcquires
    /\ clock < MaxTime
    /\ entered' = [entered EXCEPT ![w] = [at |-> clock, n |-> acquired[w] + 1]]
    /\ UNCHANGED <<rlvars, bvars, pvars, cvars, evars, fvars>>
    /\ UNCHANGED <<svars, tvars, vvars, lvars>>

\* rate_limiter.py:14 -- the caller gets the lock
AcqLockCalled(w) == Calling(w) /\ AcqLock(w)

\* the thread has nothing to do at this instant: it has not called, it waits
\* for the lock, or it is inside time.sleep
Waits(w) ==
    \/ pc[w] = "idle" /\ ~(Calling(w) /\ lock = 0)
    \/ pc[w] \in {"l22", "l30"} /\ wake[w] > clock

Sleeping(w) == pc[w] \in {"l22", "l30"} /\ wake[w] > clock

\* time passes only when no thread can run
TickIdeal ==
    /\ clock < MaxTime \/ \E w \in Workers : Sleeping(w)
    /\ \A w \in Workers : Waits(w)
    /\ clock' = clock + 1
    /\ UNCHANGED <<max_calls, period, min_delay, calls, last_call_time, lock,
                   pc, now, wake, acquired, admissions>>
    /\ UNCHANGED <<bvars, pvars, xvars>>

RLNextIdeal ==
    \/ TickIdeal
    \/ \E w \in Workers : AcqCall(w)
    \/ \E w \in Workers : AcqLockCalled(w)
    \/ \E w \in Workers : AcqReadNow(w)
    \/ \E w \in Workers : AcqWakeMinDelay(w)
    \/ \E w \in Workers : AcqCheckWindow(w)
    \/ \E w \in Workers : AcqWakeWindow(w)
    \/ \E w \in Workers : AcqRecord(w)

SpecRLIdeal == InitRL /\ [][RLNextIdeal]_vars

\* both constraints hold at instant t for a caller, given the admissions
\* made so far
Admissible(t, adm) ==
    /\ (min_delay > 0 /\ adm # <<>>) => t - adm[Len(adm)] >= min_delay
    /\ Cardinality({k \in 1..Len(adm) : t - adm[k] < period}) < max_calls

\* the earliest admissible instant not before e
Earliest(e, adm) ==
    CHOOSE t \in e..(clock + period + min_delay) :
      /\ Admissible(t, adm)
      /\ \A u \in e..(t - 1) : ~Admissible(u, adm)

\* C23: acquire() never oversleeps.  A caller that finds the window full
\* sleeps until the oldest recorded timestamp leaves the window (oldest +
\* period) and is admitted then; every admission happens at the earliest
\* instant, not before the call, at which the window constraint and the
\* min-delay constraint both hold for the caller, also when other workers
\* wait at the same time; a caller for which both hold at the call is
\* admitted at the instant of the call.
C23_NeverOversleeps ==
    \A w \in Workers :
      /\ pc[w] = "l30" => wake[w] = calls[1] + period
      /\ pc[w] = "l34" =>
           /\ now[w] = clock
           /\ now[w] = Earliest(entered[w].at, admissions)
           /\ Admissible(entered[w].at, admissions) => now[w] = entered[w].at

\* a caller that called while another one was asleep with the lock, then
\* found the window full itself, is about to be admitted
C23_Witness ==
    \E w \in Workers :
      /\ pc[w] = "l34"
      /\ Len(admissions) >= 2
      /\ entered[w].at < admissions[Len(admissions)]
      /\ now[w] = admissions[Len(admissions)] + period
      /\ period > 1


(***************************************************************************)
(* The CSV batch of handle_image_command with the lock of the limiter it   *)
(* shares with its work units (commands.py:416-521, run_image_job at       *)
(* commands.py:182-310, check_job_status at commands.py:2148-2170).        *)
(* A call of acquire() is the entry into `with self.lock` and the leaving  *)
(* of it; the sleeps inside are finite (rate_limiter.py:21, :28).  A job   *)
(* answers "running" at most MaxPolls times.                               *)
(***************************************************************************)
NoThread == 0 - 1
MainThread == 0

\* a poll loop that goes on after a failed status
PollDoneOnSuccessOnly(a) == a = "succeeded"

\* commands.py:2162-2165 -- the statuses that end the loop of
\* check_job_status
PollDone(a) == a \in {"succeeded", "failed"}

\* the work units that occupy a thread of the pool
Occupying == {"generate", "poll_acquire", "poll_in", "poll_request", "poll_sleep"}

PoolBusy == Cardinality({i \in Tasks : lunit[i] \in Occupying})

LInit ==
    /\ lholder = NoThread
    /\ lmain = "acquire"
    /\ lidx = 1
    /\ lunit = [i \in Tasks |-> "none"]
    /\ lres = [i \in Tasks |-> "none"]
    /\ lpolls = [i \in Tasks |-> 0]
    /\ lfailed = <<>>
    /\ lruns = [i \in Tasks |-> 0]
    /\ lconsumed = {}
    /\ lpool \in 1..NumTasks

LUnchangedOthers ==
    /\ UNCHANGED <<rlvars, bvars, pvars, cvars, evars, fvars>>
    /\ UNCHANGED <<svars, tvars, vvars, hvars>>

\* commands.py:459 and rate_limiter.py:14 -- the submitting thread enters
\* the with block of acquire()
LMainEnter ==
    /\ lmain = "acquire"
    /\ lholder = NoThread
    /\ lholder' = MainThread
    /\ lmain' = "in_acquire"
    /\ UNCHANGED <<lidx, lunit, lres, lpolls, lfailed, lruns, lconsumed, lpool>>
    /\ LUnchangedOthers

\* rate_limiter.py:15-35 -- the sleeps are over, the admission is recorded
\* and the with block ends
LMainLeave ==
    /\ lmain = "in_acquire"
    /\ lholder' = NoThread
    /\ lmain' = "submit"
    /\ UNCHANGED <<lidx, lunit, lres, lpolls, lfailed, lruns, lconsumed, lpool>>
    /\ LUnchangedOthers

\* commands.py:470-475 -- executor.submit(run_image_job, ...), the pause
\* between rows; after the last row the collecting loop starts
LMainSubmit ==
    /\ lmain = "submit"
    /\ lunit' = [lunit EXCEPT ![lidx] = "queued"]
    /\ lruns' = [lruns EXCEPT ![lidx] = 1]
    /\ IF lidx = NumTasks
         THEN lmain' = "collect" /\ lidx' = 1
         ELSE lmain' = "acquire" /\ lidx' = lidx + 1
    /\ UNCHANGED <<lholder, lres, lpolls, lfailed, lconsumed, lpool>>
    /\ LUnchangedOthers

\* commands.py:478-490 -- future.result() of the next task in submission
\* order; commands.py:493 -- if failed_tasks
LMainCollect ==
    /\ lmain = "collect"
    /\ lunit[lidx] = "finished"
    /\ lfailed' = IF lres[lidx] = "true" THEN lfailed ELSE Append(lfailed, lidx)
    /\ IF lidx = NumTasks
         THEN /\ lmain' = IF lfailed' = <<>> THEN "done" ELSE "retry_submit"
              /\ lidx' = 1
         ELSE /\ lmain' = "collect"
              /\ lidx' = lidx + 1
    /\ UNCHANGED <<lholder, lunit, lres, lpolls, lruns, lconsumed, lpool>>
    /\ LUnchangedOthers

\* commands.py:497-510 -- executor.submit of the next failed task, with no
\* call of acquire()
LMainRetrySubmit ==
    /\ lmain = "retry_submit"
    /\ LET i == lfailed[lidx] IN
         /\ lunit' = [lunit EXCEPT ![i] = "queued"]
         /\ lruns' = [lruns EXCEPT ![i] = 2]
         /\ lres' = [lres EXCEPT ![i] = "none"]
         /\ lpolls' = [lpolls EXCEPT ![i] = 0]
    /\ IF lidx = Len(lfailed)
         THEN lmain' = "retry_collect" /\ lidx' = 1
         ELSE lmain' = "retry_submit" /\ lidx' = lidx + 1
    /\ UNCHANGED <<lholder, lfailed, lconsumed, lpool>>
    /\ LUnchangedOthers

\* commands.py:512-518 -- as_completed yields a finished retry future; after
\* the last one the with block ends and the handler returns (519-521)
LMainRetryCollect ==
    /\ lmain = "retry_collect"
    /\ \E k \in 1..Len(lfailed) :
         /\ lfailed[k] \notin lconsumed
         /\ lunit[lfailed[k]] = "finished"
         /\ lconsumed' = lconsumed \cup {lfailed[k]}
    /\ lmain' = IF Len(lfailed) = Cardinality(lconsumed') THEN "done"
                                                          ELSE "retry_collect"
    /\ UNCHANGED <<lholder, lidx, lunit, lres, lpolls, lfailed, lruns, lpool>>
    /\ LUnchangedOthers

\* a free thread of the pool takes the work unit (max_workers =
\* throttle_limit, commands.py:420 and :497)
LStart(i) ==
    /\ lunit[i] = "queued"
    /\ PoolBusy < lpool
    /\ lunit' = [lunit EXCEPT ![i] = "generate"]
    /\ UNCHANGED <<lholder, lmain, lidx, lres, lpolls, lfailed, lruns,
                   lconsumed, lpool>>
    /\ LUnchangedOthers

\* commands.py:192-213 -- the file name is resolved (an error there leaves
\* the work unit as an exception), generate_image returns a job or raises
\* after its bounded retries (image.py:20-53)
LGenerate(i) ==
    /\ lunit[i] = "generate"
    /\ \E g \in {"job", "error", "raised"} :
         CASE g = "job" ->
                lunit' = [lunit EXCEPT ![i] = "poll_acquire"] /\ UNCHANGED lres
           [] g = "error" ->
                /\ lunit' = [lunit EXCEPT ![i] = "finished"]
                /\ lres' = [lres EXCEPT ![i] = "false"]
           [] OTHER ->
                /\ lunit' = [lunit EXCEPT ![i] = "finished"]
                /\ lres' = [lres EXCEPT ![i] = "raised"]
    /\ UNCHANGED <<lholder, lmain, lidx, lpolls, lfailed, lruns, lconsumed,
                   lpool>>
    /\ LUnchangedOthers

\* commands.py:2153-2154 and rate_limiter.py:14 -- the poll loop enters the
\* with block of acquire()
LPollEnter(i) ==
    /\ lunit[i] = "poll_acquire"
    /\ lholder = NoThread
    /\ lholder' = i
    /\ lunit' = [lunit EXCEPT ![i] = "poll_in"]
    /\ UNCHANGED <<lmain, lidx, lres, lpolls, lfailed, lruns, lconsumed, lpool>>
    /\ LUnchangedOthers

\* rate_limiter.py:15-35 -- the with block ends
LPollLeave(i) ==
    /\ lunit[i] = "poll_in"
    /\ lholder' = NoThread
    /\ lunit' = [lunit EXCEPT ![i] = "poll_request"]
    /\ UNCHANGED <<lmain, lidx, lres, lpolls, lfailed, lruns, lconsumed, lpool>>
    /\ LUnchangedOthers

\* commands.py:2156-2166 -- the status request; commands.py:218-275 -- what
\* run_image_job returns for an ended loop
LPollRequest(i) ==
    /\ lunit[i] = "poll_request"
    /\ \E a \in PollOutcomes :
         /\ (a = "running") => lpolls[i] < MaxPolls
         /\ lpolls' = [lpolls EXCEPT ![i] = IF a = "running" THEN @ + 1 ELSE @]
         /\ IF a = "error"
              THEN /\ lunit' = [lunit EXCEPT ![i] = "finished"]
                   /\ lres' = [lres EXCEPT ![i] = "false"]
              ELSE IF PollDone(a)
                     THEN /\ lunit' = [lunit EXCEPT ![i] = "finished"]
                          /\ \E r \in {"true", "false"} :
                               /\ (a = "failed") => r = "false"
                               /\ lres' = [lres EXCEPT ![i] = r]
                     ELSE /\ lunit' = [lunit EXCEPT ![i] = "poll_sleep"]
                          /\ UNCHANGED lres
    /\ UNCHANGED <<lholder, lmain, lidx, lfailed, lruns, lconsumed, lpool>>
    /\ LUnchangedOthers

\* commands.py:2170 -- time.sleep(2) returns
LPollSleep(i) ==
    /\ lunit[i] = "poll_sleep"
    /\ lunit' = [lunit EXCEPT ![i] = "poll_acquire"]
    /\ UNCHANGED <<lholder, lmain, lidx, lres, lpolls, lfailed, lruns,
                   lconsumed, lpool>>
    /\ LUnchangedOthers

LMainStep ==
    \/ LMainEnter
    \/ LMainLeave
    \/ LMainSubmit
    \/ LMainCollect
    \/ LMainRetrySubmit
    \/ LMainRetryCollect

LUnitStep(i) ==
    \/ LStart(i)
    \/ LGenerate(i)
    \/ LPollEnter(i)
    \/ LPollLeave(i)
    \/ LPollRequest(i)
    \/ LPollSleep(i)

LNext ==
    \/ LMainEnter
    \/ LMainLeave
    \/ LMainSubmit
    \/ LMainCollect
    \/ LMainRetrySubmit
    \/ LMainRetryCollect
    \/ \E i \in Tasks : LStart(i)
    \/ \E i \in Tasks : LGenerate(i)
    \/ \E i \in Tasks : LPollEnter(i)
    \/ \E i \in Tasks : LPollLeave(i)
    \/ \E i \in Tasks : LPollRequest(i)
    \/ \E i \in Tasks : LPollSleep(i)

\* every thread that can run keeps running: sleeps and remote calls return
LFairness ==
    /\ WF_vars(LMainStep)
    /\ \A i \in Tasks : WF_vars(LUnitStep(i))

InitBatchLive ==
    /\ LInit /\ LimiterUnused /\ RLProcIdle /\ BIdle /\ PIdle /\ CIdle
    /\ EIdle /\ FIdle /\ SIdle /\ TIdle /\ VIdle /\ HIdle

SpecBatchLive == InitBatchLive /\ [][LNext]_vars /\ LFairness

\* C30: a batch run always finishes.  Whatever the interleaving of the
\* submitting thread and the work units on the shared limiter, the run
\* reaches the end of the handler with the initial pass and the retry pass
\* complete, every task with an outcome, and nobody inside or waiting for
\* the limiter or the pool.
C30_BatchRunFinishes ==
    <>[](/\ lmain = "done"
         /\ lholder = NoThread
         /\ \A i \in Tasks : lunit[i] = "finished" /\ lres[i] # "none")

\* the handler has returned after a retry pass in which a work unit polled
\* its job more than once
C30_Witness ==
    /\ lmain = "done"
    /\ lfailed # <<>>
    /\ \E i \in Tasks : lruns[i] = 2 /\ lpolls[i] >= 1 /\ lres[i] = "true"

====
